---- MODULE Spec2Model ----
(***************************************************************************)
(* junk-estimator: the admission gate of the estimate and upload-signing   *)
(* handlers (origin check, sliding-window rate limit, body validation,     *)
(* per-batch upload counters) and the loose JSON extractor.                *)
(*                                                                         *)
(* Texts are sequences of lexical atoms: a fence marker is one atom, a     *)
(* string literal (with its quotes) is one atom, a digit is one atom.      *)
(* Clock values are milliseconds, as returned by Date.now().               *)
(***************************************************************************)
EXTENDS Integers, Sequences, FiniteSets, TLC

(***************************************************************************)
(* Bounds of the model                                                     *)
(***************************************************************************)
MaxSegs == 4
MaxTicks == 3
MaxReqs == 2

(***************************************************************************)
(* Lexical atoms                                                           *)
(***************************************************************************)
\* the triple-backtick fence marker
BT == "FENCE"
Labels == {"json", "JSON"}
\* string literals written without escapes, quotes included
StrAtoms == {"\"a\"", "\"arr\"", "\"serviceable\""}
\* a quotation mark on its own: it opens or closes a string literal whose
\* content is the atoms in between
Q == "\""
\* the fence marker written with \u0060 escapes inside a string literal
ESCBT == "\\u0060\\u0060\\u0060"
DigitAtoms == {"1", "2"}
LitAtoms == {"true", "false", "null"}
WsAtoms == {" ", "\n"}

IsWs(c) == c \in WsAtoms

(***************************************************************************)
(* JSON values.  Every value is a record of the same shape: t is the type, *)
(* a the atoms of a scalar, keys/kids the members of an object (keys in    *)
(* order of first insertion, as a JavaScript object keeps them) or kids    *)
(* the elements of an array.                                               *)
(***************************************************************************)
Scalar(tt, aa) == [t |-> tt, a |-> aa, keys |-> <<>>, kids |-> <<>>]
JNull == Scalar("lit", <<"null">>)
JObj(ks, vs) == [t |-> "obj", a |-> <<>>, keys |-> ks, kids |-> vs]
JArr(vs) == [t |-> "arr", a |-> <<>>, keys |-> <<>>, kids |-> vs]
EmptyObj == JObj(<<>>, <<>>)

PFail == [ok |-> FALSE, v |-> JNull, rest |-> <<>>]
POk(val, r) == [ok |-> TRUE, v |-> val, rest |-> r]

RECURSIVE SkipWs(_)
SkipWs(s) == IF s # <<>> /\ IsWs(Head(s)) THEN SkipWs(Tail(s)) ELSE s

RECURSIVE DigitRun(_)
DigitRun(s) == IF s # <<>> /\ Head(s) \in DigitAtoms THEN 1 + DigitRun(Tail(s)) ELSE 0

\* the content of a string literal as JSON.parse decodes it
Decode(content) == [i \in 1..Len(content) |-> IF content[i] = ESCBT THEN BT ELSE content[i]]

\* a string literal at the head of s; str is the string, kept as the atoms of
\* its shortest literal.  A raw line break may not occur inside a literal, and
\* the quotation mark that begins the next literal ends this one.
ParseString(s) ==
  IF s = <<>> THEN [ok |-> FALSE, str |-> <<>>, rest |-> <<>>]
  ELSE IF Head(s) \in StrAtoms THEN [ok |-> TRUE, str |-> <<Head(s)>>, rest |-> Tail(s)]
  ELSE IF Head(s) # Q THEN [ok |-> FALSE, str |-> <<>>, rest |-> <<>>]
  ELSE LET ends == {j \in 2..Len(s) : s[j] = Q \/ s[j] \in StrAtoms}
       IN IF ends = {} THEN [ok |-> FALSE, str |-> <<>>, rest |-> <<>>]
          ELSE LET j == CHOOSE x \in ends : \A y \in ends : x <= y
                   content == SubSeq(s, 2, j - 1)
               IN IF s[j] # Q \/ \E i \in 1..Len(content) : content[i] = "\n"
                  THEN [ok |-> FALSE, str |-> <<>>, rest |-> <<>>]
                  ELSE [ok |-> TRUE,
                        str |-> <<Q>> \o Decode(content) \o <<Q>>,
                        rest |-> SubSeq(s, j + 1, Len(s))]

IndexOfKey(ks, k) ==
  IF \E i \in 1..Len(ks) : ks[i] = k
  THEN CHOOSE i \in 1..Len(ks) : ks[i] = k
  ELSE 0

\* obj[k] = v: a repeated key keeps its first position and takes the last value
PutMember(o, k, val) ==
  LET i == IndexOfKey(o.keys, k)
  IN IF i = 0
     THEN JObj(Append(o.keys, k), Append(o.kids, val))
     ELSE JObj(o.keys, [o.kids EXCEPT ![i] = val])

RECURSIVE ParseValue(_), ParseMembers(_, _), ParseElements(_, _)

\* members of an object after "{" or after ","; s starts at the member's key
ParseMembers(s0, o) ==
  LET s == SkipWs(s0)
      key == ParseString(s)
  IN IF ~key.ok THEN PFail
     ELSE LET k == key.str
              s1 == SkipWs(key.rest)
          IN IF s1 = <<>> \/ Head(s1) # ":" THEN PFail
             ELSE LET r == ParseValue(Tail(s1))
                  IN IF ~r.ok THEN PFail
                     ELSE LET s2 == SkipWs(r.rest)
                              o2 == PutMember(o, k, r.v)
                          IN IF s2 = <<>> THEN PFail
                             ELSE IF Head(s2) = "}" THEN POk(o2, Tail(s2))
                             ELSE IF Head(s2) = "," THEN ParseMembers(Tail(s2), o2)
                             ELSE PFail

\* elements of an array after "[" or after ","
ParseElements(s0, vs) ==
  LET r == ParseValue(s0)
  IN IF ~r.ok THEN PFail
     ELSE LET s2 == SkipWs(r.rest)
              vs2 == Append(vs, r.v)
          IN IF s2 = <<>> THEN PFail
             ELSE IF Head(s2) = "]" THEN POk(JArr(vs2), Tail(s2))
             ELSE IF Head(s2) = "," THEN ParseElements(Tail(s2), vs2)
             ELSE PFail

ParseValue(s0) ==
  LET s == SkipWs(s0)
  IN IF s = <<>> THEN PFail
     ELSE LET c == Head(s)
          IN IF c = "{"
             THEN LET r == SkipWs(Tail(s))
                  IN IF r # <<>> /\ Head(r) = "}" THEN POk(EmptyObj, Tail(r))
                     ELSE ParseMembers(r, EmptyObj)
             ELSE IF c = "["
             THEN LET r == SkipWs(Tail(s))
                  IN IF r # <<>> /\ Head(r) = "]" THEN POk(JArr(<<>>), Tail(r))
                     ELSE ParseElements(r, <<>>)
             ELSE IF c \in StrAtoms \/ c = Q
             THEN LET str == ParseString(s)
                  IN IF str.ok THEN POk(Scalar("str", str.str), str.rest) ELSE PFail
             ELSE IF c \in LitAtoms THEN POk(Scalar("lit", <<c>>), Tail(s))
             ELSE IF c \in DigitAtoms
             THEN LET n == DigitRun(s)
                  IN POk(Scalar("num", SubSeq(s, 1, n)), SubSeq(s, n + 1, Len(s)))
             ELSE PFail

\* JSON.parse: one value, surrounded by optional whitespace, and nothing else
JSONparse(s) ==
  LET r == ParseValue(s)
  IN IF r.ok /\ SkipWs(r.rest) = <<>>
     THEN [ok |-> TRUE, v |-> r.v]
     ELSE [ok |-> FALSE, v |-> JNull]

\* JSON.stringify without indentation
RECURSIVE JSONstringify(_)
JSONstringify(v) ==
  LET RECURSIVE elements(_)
      elements(i) ==
        IF i > Len(v.kids) THEN <<>>
        ELSE (IF i > 1 THEN <<",">> ELSE <<>>)
             \o JSONstringify(v.kids[i]) \o elements(i + 1)
      RECURSIVE members(_)
      members(i) ==
        IF i > Len(v.kids) THEN <<>>
        ELSE (IF i > 1 THEN <<",">> ELSE <<>>)
             \o v.keys[i] \o <<":">> \o JSONstringify(v.kids[i]) \o members(i + 1)
  IN IF v.t = "obj" THEN <<"{">> \o members(1) \o <<"}">>
     ELSE IF v.t = "arr" THEN <<"[">> \o elements(1) \o <<"]">>
     ELSE v.a

(***************************************************************************)
(* extractJsonLoose                                                        *)
(***************************************************************************)
\* positions i where a fence marker is directly followed by the label and a
\* closing fence marker exists after the label
FenceStarts(text) ==
  {i \in 1..Len(text) :
      /\ text[i] = BT
      /\ i + 1 <= Len(text)
      /\ text[i + 1] \in Labels
      /\ \E j \in (i + 2)..Len(text) : text[j] = BT}

Min(S) == CHOOSE x \in S : \A y \in S : x <= y
Max(S) == CHOOSE x \in S : \A y \in S : x >= y

\* the lazy closing fence: the first fence marker after the label
FenceCloseLazy(text, i) == Min({j \in (i + 2)..Len(text) : text[j] = BT})
FenceCloseGreedy(text, i) == Max({j \in (i + 2)..Len(text) : text[j] = BT})

FenceClose(text, i) == FenceCloseLazy(text, i)

\* the fence regex, case-insensitive: leftmost match, lazy interior
FenceExec(text) ==
  IF FenceStarts(text) = {}
  THEN [found |-> FALSE, interior |-> <<>>]
  ELSE LET i == Min(FenceStarts(text))
           j == FenceClose(text, i)
       IN [found |-> TRUE, interior |-> SubSeq(text, i + 2, j - 1)]

\* the span ended at the first closing brace after the first opening one
BraceSpanShort(text) ==
  LET firsts == {i \in 1..Len(text) : text[i] = "{"}
      lasts == {i \in 1..Len(text) : text[i] = "}" /\ firsts # {} /\ i > Min(firsts)}
  IN IF firsts # {} /\ lasts # {}
     THEN [found |-> TRUE, span |-> SubSeq(text, Min(firsts), Min(lasts))]
     ELSE [found |-> FALSE, span |-> <<>>]

\* the slice ended before the last closing brace
BraceSpanExclusive(text) ==
  LET firsts == {i \in 1..Len(text) : text[i] = "{"}
      lasts == {i \in 1..Len(text) : text[i] = "}"}
  IN IF firsts # {} /\ lasts # {} /\ Max(lasts) > Min(firsts)
     THEN [found |-> TRUE, span |-> SubSeq(text, Min(firsts), Max(lasts) - 1)]
     ELSE [found |-> FALSE, span |-> <<>>]

\* text.indexOf("{") .. text.lastIndexOf("}")
BraceSpan(text) ==
  LET firsts == {i \in 1..Len(text) : text[i] = "{"}
      lasts == {i \in 1..Len(text) : text[i] = "}"}
  IN IF firsts # {} /\ lasts # {} /\ Max(lasts) > Min(firsts)
     THEN [found |-> TRUE, span |-> SubSeq(text, Min(firsts), Max(lasts))]
     ELSE [found |-> FALSE, span |-> <<>>]

\* s.replace(/,\s*X/g, X) for a closing bracket X
RECURSIVE RepairBefore(_, _)
RepairBefore(s, X) ==
  IF s = <<>> THEN <<>>
  ELSE IF Head(s) = ","
       THEN LET r == SkipWs(Tail(s))
            IN IF r # <<>> /\ Head(r) = X
               THEN <<X>> \o RepairBefore(Tail(r), X)
               ELSE <<",">> \o RepairBefore(Tail(s), X)
       ELSE <<Head(s)>> \o RepairBefore(Tail(s), X)

RepairBracesOnly(s) == RepairBefore(s, "}")
Repair(s) == RepairBefore(RepairBefore(s, "}"), "]")

\* the brace span tried when the fence interior does not parse
CandidateFallback(text) ==
  LET fence == FenceExec(text)
      brace == BraceSpan(text)
  IN IF fence.found /\ (JSONparse(fence.interior).ok \/ JSONparse(Repair(fence.interior)).ok)
     THEN [has |-> TRUE, raw |-> fence.interior]
     ELSE IF brace.found THEN [has |-> TRUE, raw |-> brace.span]
     ELSE [has |-> FALSE, raw |-> <<>>]

\* the candidate: the fence interior when a labeled fence matched, else the
\* brace span; has = FALSE is JavaScript's null
Candidate(text) ==
  LET fence == FenceExec(text)
      brace == BraceSpan(text)
  IN IF fence.found THEN [has |-> TRUE, raw |-> fence.interior]
     ELSE IF brace.found THEN [has |-> TRUE, raw |-> brace.span]
     ELSE [has |-> FALSE, raw |-> <<>>]

\* an exception that leaves the function
Thrown == Scalar("throw", <<>>)

\* try { return JSON.parse(..) } catch { return null }
catchNone(p) == IF p.ok THEN p.v ELSE Thrown
catchNull(p) == IF p.ok THEN p.v ELSE JNull

\* the result null (nothing extracted) is the JSON value null
extractJsonLoose(text) ==
  LET c == Candidate(text)
  IN IF ~c.has \/ c.raw = <<>> THEN JNull
     ELSE LET strict == JSONparse(c.raw)
          IN IF strict.ok THEN strict.v
             ELSE catchNull(JSONparse(Repair(c.raw)))

(***************************************************************************)
(* Configuration                                                           *)
(***************************************************************************)
RATE_MAX == 5
RATE_WINDOW_MS == 10 * 60 * 1000
MAX_FILES == 12
MAX_FILE_MB == 12
MAX_TOTAL_MB == 60
MB == 1024 * 1024
\* several atoms, none of them the word outside
FALLBACK_LINE == <<"Sorry", "text", "us">>
RATE_LINE == <<"try", "again", "later">>

IPs == {"ip1", "ip2"}
BatchIds == {"b1", "b2"}
\* the Origin header; "" is an absent header
Origins == {"", "https://site", "https://evil"}
AllowLists == {{}, {"https://site"}}

(***************************************************************************)
(* Helpers of both handlers                                                *)
(***************************************************************************)
\* first entry of x-forwarded-for, else the peer address
getIP(r) == IF r.xff # <<>> /\ r.xff[1] # "" THEN r.xff[1] ELSE r.remote

\* an instant t is still inside the window at clock value n
InWindowClosed(t, n) == n - t <= RATE_WINDOW_MS
InWindow(t, n) == n - t < RATE_WINDOW_MS

AtLimitStrict(arr) == Len(arr) > RATE_MAX
AtLimit(arr) == Len(arr) >= RATE_MAX

\* the attempt recorded before the length is tested
rateLimitRecordFirst(cache, ip, n) ==
  LET arr == SelectSeq(cache[ip], LAMBDA t : InWindow(t, n))
  IN [ok |-> ~AtLimit(arr), cache |-> [cache EXCEPT ![ip] = Append(arr, n)]]

rateLimit(cache, ip, n) ==
  LET arr == SelectSeq(cache[ip], LAMBDA t : InWindow(t, n))
  IN IF AtLimit(arr)
     THEN [ok |-> FALSE, cache |-> cache]
     ELSE [ok |-> TRUE, cache |-> [cache EXCEPT ![ip] = Append(arr, n)]]

\* estimate handler: the origin must be present and listed
OriginOkEstimateOpen(origin, allowed) == allowed = {} \/ origin \in allowed
OriginOkEstimate(origin, allowed) == origin # "" /\ origin \in allowed

\* upload-signing handler: an empty list permits every origin
OriginOkSign(origin, allowed) ==
  ~(allowed # {} /\ (origin = "" \/ origin \notin allowed))

(***************************************************************************)
(* Request bodies of the estimate handler.  A string field is known by the *)
(* number of surrounding whitespace characters (pad) and the length of the *)
(* rest (len); an URL by whether it parses as one.                         *)
(***************************************************************************)
AbsentField == [k |-> "absent", pad |-> 0, len |-> 0, urls |-> <<>>]
NumberField == [k |-> "number", pad |-> 0, len |-> 0, urls |-> <<>>]
Str(p, l) == [k |-> "string", pad |-> p, len |-> l, urls |-> <<>>]
Arr(us) == [k |-> "array", pad |-> 0, len |-> 0, urls |-> us]

\* String.prototype.trim
Trim(f) == [f EXCEPT !.pad = 0]
RawLen(f) == f.pad + f.len

Issue(f, i, c) == [field |-> f, idx |-> i, code |-> c]

StringIssuesOptional(name, f, lo, hi) ==
  IF f.k = "absent" THEN <<>>
  ELSE IF f.k # "string" THEN <<Issue(name, -1, "invalid_type")>>
  ELSE IF RawLen(Trim(f)) < lo THEN <<Issue(name, -1, "too_small")>>
  ELSE IF RawLen(Trim(f)) > hi THEN <<Issue(name, -1, "too_big")>>
  ELSE <<>>

\* z.string().trim().min(lo).max(hi)
StringIssues(name, f, lo, hi) ==
  IF f.k # "string" THEN <<Issue(name, -1, "invalid_type")>>
  ELSE IF RawLen(Trim(f)) < lo THEN <<Issue(name, -1, "too_small")>>
  ELSE IF RawLen(Trim(f)) > hi THEN <<Issue(name, -1, "too_big")>>
  ELSE <<>>

RECURSIVE UrlIssues(_, _)
UrlIssues(us, i) ==
  IF i > Len(us) THEN <<>>
  ELSE (IF us[i] THEN <<>> ELSE <<Issue("image_urls", i - 1, "invalid_string")>>)
       \o UrlIssues(us, i + 1)

TooManyStrict(us) == Len(us) > MAX_FILES + 1
TooMany(us) == Len(us) > MAX_FILES

\* z.array(z.string().url()).max(MAX_FILES)
ArrayIssues(f) ==
  IF f.k # "array" THEN <<Issue("image_urls", -1, "invalid_type")>>
  ELSE (IF TooMany(f.urls) THEN <<Issue("image_urls", -1, "too_big")>> ELSE <<>>)
       \o UrlIssues(f.urls, 1)

\* BodySchema.safeParse
BodySchema(body) ==
  LET issues ==
        IF body.kind # "object" THEN <<Issue("", -1, "invalid_type")>>
        ELSE StringIssues("zip", body.zip, 5, 10)
             \o StringIssues("description", body.description, 3, 5000)
             \o ArrayIssues(body.image_urls)
  IN [success |-> issues = <<>>,
      issues |-> issues,
      zip |-> Trim(body.zip),
      description |-> Trim(body.description),
      image_urls |-> body.image_urls.urls]

\* readJson: JSON.parse(body || "{}")
NoPayload == [k |-> "absent", size |-> 0, batchTotal |-> 0, batchId |-> ""]
Body(kd, z, d, u) ==
  [kind |-> kd, zip |-> z, description |-> d, image_urls |-> u, payload |-> NoPayload]
readJson(body) ==
  IF body.kind = "malformed" THEN [ok |-> FALSE, body |-> body]
  ELSE IF body.kind = "empty"
  THEN [ok |-> TRUE, body |-> [body EXCEPT !.kind = "object"]]
  ELSE [ok |-> TRUE, body |-> body]

(***************************************************************************)
(* Model output                                                            *)
(***************************************************************************)
RECURSIVE TrimLeft(_), TrimRight(_)
TrimLeft(s) == IF s # <<>> /\ IsWs(Head(s)) THEN TrimLeft(Tail(s)) ELSE s
TrimRight(s) ==
  IF s # <<>> /\ IsWs(s[Len(s)]) THEN TrimRight(SubSeq(s, 1, Len(s) - 1)) ELSE s
TrimText(s) == TrimRight(TrimLeft(s))

\* text.split("\n")[0]
FirstLine(s) ==
  LET nl == {i \in 1..Len(s) : s[i] = "\n"}
  IN IF nl = {} THEN s ELSE SubSeq(s, 1, Min(nl) - 1)

Contains(s, w) == \E i \in 1..Len(s) : s[i] = w

\* (text.split("\n")[0] || FALLBACK_LINE).trim()
CustomerLineWhole(text) == TrimText(IF text = <<>> THEN FALLBACK_LINE ELSE text)
CustomerLine(text) ==
  LET l == FirstLine(text)
  IN TrimText(IF l = <<>> THEN FALLBACK_LINE ELSE l)

\* typeof parsedJson?.serviceable === "boolean" ? it : !/outside/i.test(line)
Serviceable(parsedJson, line) ==
  LET i == IndexOfKey(parsedJson.keys, <<"\"serviceable\"">>)
  IN IF parsedJson.t = "obj" /\ i # 0
        /\ parsedJson.kids[i].t = "lit"
        /\ parsedJson.kids[i].a \in {<<"true">>, <<"false">>}
     THEN parsedJson.kids[i].a = <<"true">>
     ELSE ~Contains(line, "outside")

OrEmptyRaw(parsedJson) == parsedJson

\* parsedJson ?? {}
OrEmpty(parsedJson) == IF parsedJson = JNull THEN EmptyObj ELSE parsedJson

(***************************************************************************)
(* Responses.  kind is the shape of the body written by res.end.           *)
(***************************************************************************)
Resp(st, kd) ==
  [status |-> st, kind |-> kd, serviceable |-> TRUE, customer_line |-> <<>>,
   data |-> EmptyObj, issues |-> <<>>, message |-> "", token |-> FALSE,
   modelCalled |-> FALSE, modelThrew |-> FALSE, modelText |-> <<>>,
   putCalled |-> FALSE, putFailed |-> FALSE]

Quote(svc, line, d) ==
  [Resp(200, "quote") EXCEPT !.serviceable = svc, !.customer_line = line, !.data = d]

\* the body written by the catch block of the estimate handler
Fallback == Quote(TRUE, FALLBACK_LINE, EmptyObj)

\* the clock's zero lies ten minutes before the end of a month of 30 days
ZeroMinute == 43200 - 10

\* dayjs().format("YYYY-MM"), the months counted from the one of the clock's zero
YearMonth(n) == ((n \div 60000) + ZeroMinute) \div 43200

NoRecord ==
  [path |-> [prefix |-> "", ym |-> 0, id |-> 0], ts |-> 0, ip |-> "", zip |-> Str(0, 0),
   image_count |-> 0, serviceable |-> TRUE, customer_line |-> <<>>,
   model_text |-> <<>>, data |-> EmptyObj]

\* the element of a set of one element
The(S) == CHOOSE x \in S : TRUE

\* what the handler derives from the text t of the model's answer
derived(t) ==
  The({[text |-> t,
        customer_line |-> CustomerLine(t),
        parsedJson |-> p,
        serviceable |-> Serviceable(p, CustomerLine(t))] : p \in {extractJsonLoose(t)}})

\* resp.output_text.toString().trim() and the values derived from it
modelOutput(env) == The({derived(t) : t \in {TrimText(env.text)}})

\* req.method === "OPTIONS": the preflight, answered before any other check
IsPreflightNever(r) == FALSE
IsPreflight(r) == r.method = "OPTIONS"

\* req.method !== "POST": the method check that follows the preflight
NotPostNorGet(r) == r.method \notin {"POST", "GET"}
NotPost(r) == r.method # "POST"

(***************************************************************************)
(* The estimate handler, from the request to res.end.  env is what the     *)
(* model call and the blob store answer for this request.                  *)
(***************************************************************************)
handlerEstimate(r, env, allowed, cache, n, id) ==
  The({
  LET ip == getIP(r)
      rl == rateLimit(cache, ip, n)
      rj == readJson(r.body)
      parsed == BodySchema(rj.body)
      text == m.text
      line == m.customer_line
      parsedJson == m.parsedJson
      svc == m.serviceable
      record == [path |-> [prefix |-> "estimates", ym |-> YearMonth(n), id |-> id],
                 ts |-> n, ip |-> ip, zip |-> parsed.zip,
                 image_count |-> Len(parsed.image_urls), serviceable |-> svc,
                 customer_line |-> line, model_text |-> text,
                 data |-> OrEmpty(parsedJson)]
      early(rs) == [res |-> rs, cache |-> cache, admitted |-> FALSE,
                    stored |-> FALSE, record |-> NoRecord, idUsed |-> FALSE]
      late(rs, st, used) == [res |-> rs, cache |-> rl.cache, admitted |-> TRUE,
                             stored |-> st, record |-> record, idUsed |-> used]
  IN IF IsPreflight(r) THEN early(Resp(204, "none"))
     ELSE IF NotPost(r) THEN early(Resp(405, "text"))
     ELSE IF ~OriginOkEstimate(r.origin, allowed) THEN early(Resp(403, "text"))
     ELSE IF ~rl.ok
     THEN [early([Resp(429, "line") EXCEPT !.customer_line = RATE_LINE])
             EXCEPT !.cache = rl.cache]
     ELSE IF ~rj.ok THEN late(Fallback, FALSE, FALSE)
     ELSE IF ~parsed.success
     THEN late([Resp(400, "issues") EXCEPT !.customer_line = RATE_LINE,
                                           !.issues = parsed.issues],
               FALSE, FALSE)
     ELSE IF env.threw
     THEN late([Fallback EXCEPT !.modelCalled = TRUE, !.modelThrew = TRUE],
               FALSE, FALSE)
     ELSE IF env.putFails
     THEN late([Fallback EXCEPT !.modelCalled = TRUE, !.modelText = text,
                                !.putCalled = TRUE, !.putFailed = TRUE],
               FALSE, TRUE)
     ELSE late([Quote(svc, IF line = <<>> THEN FALLBACK_LINE ELSE line,
                      OrEmpty(parsedJson))
                  EXCEPT !.modelCalled = TRUE, !.modelText = text,
                         !.putCalled = TRUE],
               TRUE, TRUE)
  : m \in {modelOutput(env)}})

(***************************************************************************)
(* The upload-signing handler                                              *)
(***************************************************************************)
NoEntry == [count |-> 0, start |-> 0]

\* an entry set at start is stale once its age exceeds the ttl
Stale(start, n) == n - start > RATE_WINDOW_MS

\* batchCounts.get(batchId) || 0
BatchGet(counts, b, n) ==
  IF counts[b].count > 0 /\ ~Stale(counts[b].start, n) THEN counts[b].count ELSE 0

\* batchCounts.set(batchId, count)
BatchSet(counts, b, c, n) == [counts EXCEPT ![b] = [count |-> c, start |-> n]]

FileTooBig(size) == size > MAX_FILE_MB * MB
BatchTooBig(total) == total > MAX_TOTAL_MB * MB
OverCountLoose(count) == count > MAX_FILES + 1
OverCount(count) == count > MAX_FILES

\* the batch counted before the sizes are tested
onBeforeGenerateTokenCountFirst(payload, counts, n) ==
  LET size == IF payload.k = "meta" THEN payload.size ELSE 0
      total == IF payload.k = "meta" THEN payload.batchTotal ELSE 0
      batchId == IF payload.k = "meta" THEN payload.batchId ELSE ""
      count == BatchGet(counts, batchId, n) + 1
      counted == IF batchId = "" THEN counts ELSE BatchSet(counts, batchId, count, n)
      out(st, c) == [step |-> st, counts |-> c, batchId |-> batchId]
  IN IF payload.k = "null" THEN out("meta", counts)
     ELSE IF FileTooBig(size) THEN out("size", counted)
     ELSE IF BatchTooBig(total) THEN out("total", counted)
     ELSE IF batchId = "" THEN out("token", counts)
     ELSE IF OverCount(count) THEN out("count", counted)
     ELSE out("token", counted)

\* step is how far the callback got: "meta" (reading the payload threw),
\* "size", "total", "count" (the check that threw) or "token"
onBeforeGenerateToken(payload, counts, n) ==
  LET size == IF payload.k = "meta" THEN payload.size ELSE 0
      total == IF payload.k = "meta" THEN payload.batchTotal ELSE 0
      batchId == IF payload.k = "meta" THEN payload.batchId ELSE ""
      count == BatchGet(counts, batchId, n) + 1
      out(st, c) == [step |-> st, counts |-> c, batchId |-> batchId]
  IN IF payload.k = "null" THEN out("meta", counts)
     ELSE IF FileTooBig(size) THEN out("size", counts)
     ELSE IF BatchTooBig(total) THEN out("total", counts)
     ELSE IF batchId = "" THEN out("token", counts)
     ELSE IF OverCount(count) THEN out("count", BatchSet(counts, batchId, count, n))
     ELSE out("token", BatchSet(counts, batchId, count, n))

SignError(msg) == [Resp(400, "signerr") EXCEPT !.message = msg]

handlerSign(r, allowed, cache, counts, n) ==
  LET ip == getIP(r)
      rl == rateLimit(cache, ip, n)
      rj == readJson(r.body)
      cb == onBeforeGenerateToken(r.body.payload, counts, n)
      early(rs) == [res |-> rs, cache |-> cache, counts |-> counts,
                    admitted |-> FALSE, step |-> "none", batchId |-> ""]
      late(rs) == [res |-> rs, cache |-> rl.cache, counts |-> counts,
                   admitted |-> TRUE, step |-> "none", batchId |-> ""]
      called(rs) == [res |-> rs, cache |-> rl.cache, counts |-> cb.counts,
                     admitted |-> TRUE, step |-> cb.step, batchId |-> cb.batchId]
  IN IF IsPreflight(r) THEN early(Resp(204, "none"))
     ELSE IF NotPost(r) THEN early(Resp(405, "text"))
     ELSE IF ~OriginOkSign(r.origin, allowed) THEN early(Resp(403, "text"))
     ELSE IF ~rl.ok THEN [early(Resp(429, "text")) EXCEPT !.cache = rl.cache]
     ELSE IF ~rj.ok THEN late(SignError("generic"))
     ELSE IF rj.body.kind = "completed" THEN late(Resp(200, "sign"))
     ELSE IF rj.body.kind # "generate" THEN late(SignError("generic"))
     ELSE IF cb.step = "meta" THEN called(SignError("generic"))
     ELSE IF cb.step = "size" THEN called(SignError("File exceeds MAX_FILE_MB MB"))
     ELSE IF cb.step = "total" THEN called(SignError("Batch exceeds MAX_TOTAL_MB MB"))
     ELSE IF cb.step = "count" THEN called(SignError("Batch exceeds MAX_FILES files"))
     ELSE called([Resp(200, "sign") EXCEPT !.token = TRUE])

(***************************************************************************)
(* The admin listing handler.  A blob is [key, date, zip, at]: its path,   *)
(* what parseKey reads from the path ("" for null) and uploadedAt.  A      *)
(* cursor is the number of blobs already listed; 0 is no cursor.           *)
(***************************************************************************)
DigitVal ==
  [c \in {"0", "1", "2", "3", "4", "5", "6", "7", "8", "9"} |->
     CASE c = "0" -> 0 [] c = "1" -> 1 [] c = "2" -> 2 [] c = "3" -> 3
       [] c = "4" -> 4 [] c = "5" -> 5 [] c = "6" -> 6 [] c = "7" -> 7
       [] c = "8" -> 8 [] c = "9" -> 9]

IsDigit(c) == c \in DOMAIN DigitVal

NaN == [nan |-> TRUE, n |-> 0]
Number(k) == [nan |-> FALSE, n |-> k]

\* the value of the leading run of digits of s, and whether there is one
RECURSIVE Digits(_, _, _)
Digits(s, acc, any) ==
  IF s # <<>> /\ IsDigit(Head(s))
  THEN Digits(Tail(s), 10 * acc + DigitVal[Head(s)], TRUE)
  ELSE [any |-> any, n |-> acc]

\* parseInt(s, 10): leading blanks, a sign, then digits; what follows the
\* digits is ignored; NaN without a digit
parseInt(s0) ==
  LET s == SkipWs(s0)
      neg == s # <<>> /\ Head(s) = "-"
      signed == s # <<>> /\ Head(s) \in {"-", "+"}
      d == Digits(IF signed THEN Tail(s) ELSE s, 0, FALSE)
  IN IF d.any THEN Number(IF neg THEN 0 - d.n ELSE d.n) ELSE NaN

\* the query parameter that is not given
Absent == <<"undefined">>

\* parseInt(..) || 50 with the default "50" of an absent parameter: NaN and 0
\* are falsy
OrFiftyNaNOnly(limit) ==
  LET v == parseInt(IF limit = Absent THEN <<"5", "0">> ELSE limit)
  IN IF v.nan THEN 50 ELSE v.n
OrFifty(limit) ==
  LET v == parseInt(IF limit = Absent THEN <<"5", "0">> ELSE limit)
  IN IF v.nan \/ v.n = 0 THEN 50 ELSE v.n

\* Math.max(1, Math.min(200, ..))
EffectiveLimit(limit) == Max({1, Min({200, OrFifty(limit)})})

\* list({prefix, cursor}): one page of the listing and the cursor of the
\* next page, 0 when this page is the last
ListPage(blobs, cursor, pageSize) ==
  LET last == Min({Len(blobs), cursor + pageSize})
  IN [blobs |-> SubSeq(blobs, cursor + 1, last),
      cursor |-> IF last < Len(blobs) THEN last ELSE 0]

\* the two filters of the loop body; "" is a filter that is empty or absent
\* and lets all pass; a blob whose path parseKey cannot read has "null"
Matches(b, date, zip) ==
  /\ date = "" \/ b.date = date
  /\ zip = "" \/ b.zip = zip

\* the for loop over one page: push matching blobs until out holds lim
RECURSIVE ScanPage(_, _, _, _, _)
ScanPage(page, out, lim, date, zip) ==
  IF page = <<>> \/ Len(out) >= lim THEN out
  ELSE ScanPage(Tail(page),
                IF Matches(Head(page), date, zip) THEN Append(out, Head(page))
                ELSE out,
                lim, date, zip)

\* the while loop: pages are fetched until out holds lim or none is left
RECURSIVE Gather(_, _, _, _, _, _, _)
Gather(blobs, pageSize, out, next, lim, date, zip) ==
  LET resp == ListPage(blobs, next, pageSize)
      got == ScanPage(resp.blobs, out, lim, date, zip)
  IN IF resp.cursor = 0 \/ Len(got) >= lim
     THEN [items |-> got, next |-> resp.cursor]
     ELSE Gather(blobs, pageSize, got, resp.cursor, lim, date, zip)

\* out.sort by uploadedAt, newest first; the sort is stable
RECURSIVE InsertNewest(_, _)
InsertNewest(sorted, b) ==
  IF sorted = <<>> THEN <<b>>
  ELSE IF Head(sorted).at >= b.at THEN <<Head(sorted)>> \o InsertNewest(Tail(sorted), b)
  ELSE <<b>> \o sorted

RECURSIVE SortNewest(_)
SortNewest(items) ==
  IF items = <<>> THEN <<>>
  ELSE InsertNewest(SortNewest(SubSeq(items, 1, Len(items) - 1)), items[Len(items)])

ListResp(st, items, next) == [status |-> st, items |-> items, next_cursor |-> next]

\* q is the request: method, whether the token is the admin token, and the
\* query parameters limit, cursor, date and zip; fails: list() throws
handlerList(q, blobs, pageSize, fails) ==
  IF q.method # "GET" THEN ListResp(405, <<>>, 0)
  ELSE IF ~q.authOk THEN ListResp(401, <<>>, 0)
  ELSE IF fails THEN ListResp(500, <<>>, 0)
  ELSE The({ListResp(200, SortNewest(g.items), g.next) :
              g \in {Gather(blobs, pageSize, <<>>, q.cursor,
                            EffectiveLimit(q.limit), q.date, q.zip)}})

(***************************************************************************)
(* The quote handlers that answer with lowTotal and highTotal.  One prices *)
(* the items and the volume the model reports; the others read the dollar  *)
(* amounts out of the one-line answer of the model.  The answer is known   *)
(* by the amounts its text holds, in order: matches is text.match(re).     *)
(***************************************************************************)
ITEM_PRICE ==
  [mattress |-> 95, box_spring |-> 65, sofa |-> 120, loveseat |-> 90,
   recliner |-> 85, dresser |-> 70, tv_flat |-> 60, tv_crt |-> 95,
   fridge |-> 135, freezer |-> 145, washer |-> 120, dryer |-> 110,
   treadmill |-> 130, elliptical |-> 140, rug_large |-> 65, bike |-> 50]
PER_CU_YD == [low |-> 85, high |-> 120]
STAIRS_ADDER == 50
LONG_CARRY_ADDER == 75

\* Math.round(p / q) for q > 0: the nearest integer, a half goes upwards
RoundDiv(p, q) == (2 * p + q) \div (2 * q)

\* (ITEM_PRICE[key] || 0) * (Number(it.qty) || 1)
ItemPrice(it) ==
  (IF it.category \in DOMAIN ITEM_PRICE THEN ITEM_PRICE[it.category] ELSE 0)
    * (IF it.qty.nan \/ it.qty.n = 0 THEN 1 ELSE it.qty.n)

RECURSIVE ItemsBase(_)
ItemsBase(items) ==
  IF items = <<>> THEN 0 ELSE ItemPrice(Head(items)) + ItemsBase(Tail(items))

QuoteResp(st, low, high) == [status |-> st, lowTotal |-> low, highTotal |-> high]

\* q.items and q.estCubicYards are what the model reported, q.stairs and
\* q.longCarry come with the request; ~q.aiOk: the call of the model failed
handlerItems(q) ==
  IF ~q.aiOk THEN QuoteResp(500, 0, 0)
  ELSE
    LET yards == Max({0, q.estCubicYards})
        items == ItemsBase(q.items)
        base == IF yards > 0
                THEN Max({items,
                          RoundDiv(yards * (PER_CU_YD.low + PER_CU_YD.high), 2)})
                ELSE items
        adders == (IF q.stairs > 0 THEN STAIRS_ADDER * q.stairs ELSE 0)
                    + (IF q.longCarry THEN LONG_CARRY_ADDER ELSE 0)
        subtotal == base + adders
    IN QuoteResp(200, Max({99, RoundDiv(subtotal * 88, 100)}),
                 RoundDiv(subtotal * 112, 100))

\* a value that may be null
Null == [null |-> TRUE, n |-> 0]
Just(k) == [null |-> FALSE, n |-> k]

\* a matched amount is its dollars d and its cents c; Number(..) of the
\* digits and the dot, rounded
cleanMoney(a) == Just(RoundDiv(100 * a.d + a.c, 100))

Cleaned(matches) == [i \in DOMAIN matches |-> cleanMoney(matches[i]).n]

\* the last two amounts, the smaller one first
extractDollarRange(matches) ==
  LET amounts == Cleaned(matches)
      k == Len(amounts)
  IN IF k >= 2
     THEN [low |-> Just(Min({amounts[k - 1], amounts[k]})),
           high |-> Just(Max({amounts[k - 1], amounts[k]}))]
     ELSE [low |-> Null, high |-> Null]

\* the smallest and the largest of all amounts
extractDollarRangeSorted(matches) ==
  LET amounts == Cleaned(matches)
      all == {amounts[i] : i \in DOMAIN amounts}
  IN IF Len(amounts) >= 2
     THEN [low |-> Just(Min(all)), high |-> Just(Max(all))]
     ELSE [low |-> Null, high |-> Null]

extractSingleAmount(matches) ==
  IF matches = <<>> THEN Null ELSE cleanMoney(matches[1])

\* from the range found to lowTotal and highTotal: a single amount gives a
\* span around it, none gives the placeholder, and the two are put in order
Totals(range, mid) ==
  LET single == IF range.low.null /\ range.high.null /\ ~mid.null
                THEN [low |-> Just(Max({99, mid.n - 50})), high |-> Just(mid.n + 50)]
                ELSE range
      filled == IF single.low.null \/ single.high.null
                THEN [low |-> Just(149), high |-> Just(229)]
                ELSE single
  IN IF filled.low.n > filled.high.n
     THEN QuoteResp(200, filled.high.n, filled.low.n)
     ELSE QuoteResp(200, filled.low.n, filled.high.n)

\* q.empty: the answer of the model is empty
handlerLine(q) ==
  IF ~q.aiOk \/ q.empty THEN QuoteResp(500, 0, 0)
  ELSE Totals(extractDollarRange(q.matches), extractSingleAmount(q.matches))

handlerLineSorted(q) ==
  IF ~q.aiOk THEN QuoteResp(500, 0, 0)
  ELSE IF q.empty THEN QuoteResp(502, 0, 0)
  ELSE Totals(extractDollarRangeSorted(q.matches), extractSingleAmount(q.matches))

(***************************************************************************)
(* State                                                                   *)
(***************************************************************************)
VARIABLES
  now,            \* Date.now()
  ticks,          \* how often the clock has advanced
  allowedOrigins, \* ALLOWED_ORIGINS, read once at start-up by both handlers
  rateCacheEst,   \* rateCache of the estimate handler
  rateCacheSign,  \* rateCache of the upload-signing handler
  batchCounts,    \* batchCounts of the upload-signing handler
  store,          \* the blob store
  nextId,         \* the next identifier uuidv4() returns
  admittedEst,    \* history: instants of the requests rateLimit admitted,
  admittedSign,   \*   those older than one window span forgotten
  issued,         \* history: tokens issued per batch while its entry is live
  req,            \* the request handled last
  res,            \* and its response; status 0 once the response has left
  nreq,           \* requests handled so far
  text,           \* extractor input
  nseg,           \* pieces it was built from
  out,            \* extractor result
  xpc,
  blobs,          \* the blobs under results/, in the order list() returns them
  pageSize,       \* how many blobs list() returns at once
  lreq,           \* the admin listing request handled last
  lres,           \* and its response
  seen,           \* history: the items returned since the walk began
  lpc,
  flight,         \* the sign requests in flight, each at an await point
  qreq,           \* the quote request handled last, with the model's answer
  qres            \* and its response

gvars == <<now, ticks, nreq, allowedOrigins, rateCacheEst, rateCacheSign,
           batchCounts, store, nextId, admittedEst, admittedSign, issued, req, res>>
xvars == <<text, nseg, out, xpc>>
lvars == <<blobs, pageSize, lreq, lres, seen, lpc>>
cvars == <<flight>>
qvars == <<qreq, qres>>
ovars == <<lvars, cvars, qvars>>
vars == <<gvars, xvars, ovars>>

Query(m, a, l, c, d, z) ==
  [method |-> m, authOk |-> a, limit |-> l, cursor |-> c, date |-> d, zip |-> z]

\* no blob stored, no listing asked
ListIdle ==
  /\ blobs = <<>>
  /\ pageSize = 1
  /\ lreq = Query("", FALSE, Absent, 0, "", "")
  /\ lres = ListResp(0, <<>>, 0)
  /\ seen = <<>>
  /\ lpc = "build"

\* how many requests the server handles at once
MaxFlights == 2

\* a place for a request in flight: pc is where its handler stands, queued
\* the client's rate window as it stood when the request came in (history)
FreeSlot == [pc |-> "free", queued |-> <<>>, status |-> 0, token |-> FALSE]

NoFlight == flight = [s \in 1..MaxFlights |-> FreeSlot]

QuoteReq(v, ok, its, yards, st, carry, blank, ms) ==
  [variant |-> v, aiOk |-> ok, items |-> its, estCubicYards |-> yards,
   stairs |-> st, longCarry |-> carry, empty |-> blank, matches |-> ms]

\* no quote asked
NoQuote == QuoteReq("", TRUE, <<>>, 0, 0, FALSE, TRUE, <<>>)

QuoteIdle ==
  /\ qreq = NoQuote
  /\ qres = QuoteResp(0, 0, 0)

OtherIdle == ListIdle /\ NoFlight /\ QuoteIdle

NoReq ==
  [h |-> "none", method |-> "", origin |-> "", xff |-> <<>>, remote |-> "",
   body |-> Body("empty", AbsentField, AbsentField, AbsentField)]

Init ==
  /\ now = 0
  /\ ticks = 0
  /\ nreq = 0
  /\ allowedOrigins \in AllowLists
  /\ rateCacheEst = [ip \in IPs |-> <<>>]
  /\ rateCacheSign = [ip \in IPs |-> <<>>]
  /\ batchCounts = [b \in BatchIds |-> NoEntry]
  /\ store = {}
  /\ nextId = 1
  /\ admittedEst = [ip \in IPs |-> <<>>]
  /\ admittedSign = [ip \in IPs |-> <<>>]
  /\ issued = [b \in BatchIds |-> 0]
  /\ req = NoReq
  /\ res = Resp(0, "none")
  /\ text = <<>>
  /\ nseg = 0
  /\ out = JNull
  /\ xpc = "build"
  /\ OtherIdle

(***************************************************************************)
(* Operations                                                              *)
(***************************************************************************)
\* the admitted instants that lie within one span of the window ending at n
Remember(hist, n) ==
  Append(SelectSeq(hist, LAMBDA t : n - t <= RATE_WINDOW_MS), n)

\* time passes
Tick(d) ==
  /\ ticks < MaxTicks
  /\ res.status = 0
  /\ now' = now + d
  /\ ticks' = ticks + 1
  /\ UNCHANGED <<nreq, allowedOrigins, rateCacheEst, rateCacheSign, batchCounts,
                 store, nextId, admittedEst, admittedSign, issued, req, res>>
  /\ UNCHANGED <<xvars, ovars>>

\* put(path, JSON.stringify(record)): the store with the record added under
\* its path
putPerMonth(st, record) ==
  {x \in st : x.path.ym # record.path.ym} \cup {record}
put(st, record) == st \cup {record}

\* one request to the estimate endpoint
Estimate(r, env) ==
  \E o \in {handlerEstimate(r, env, allowedOrigins, rateCacheEst, now, nextId)} :
     /\ res.status = 0
     /\ req' = [r EXCEPT !.h = "estimate"]
     /\ res' = o.res
     /\ rateCacheEst' = o.cache
     /\ store' = IF o.stored THEN put(store, o.record) ELSE store
     /\ nextId' = IF o.idUsed THEN nextId + 1 ELSE nextId
     /\ admittedEst' = IF o.admitted
                       THEN [admittedEst EXCEPT ![getIP(r)] = Remember(@, now)]
                       ELSE admittedEst
     /\ UNCHANGED <<now, ticks, allowedOrigins, rateCacheSign, batchCounts,
                    admittedSign, issued>>
     /\ UNCHANGED <<xvars, ovars>>

\* one request to the upload-signing endpoint
Sign(r) ==
  \E o \in {handlerSign(r, allowedOrigins, rateCacheSign, batchCounts, now)} :
  LET b == o.batchId
      wasLive == BatchGet(batchCounts, b, now) > 0
  IN /\ res.status = 0
     /\ req' = [r EXCEPT !.h = "sign"]
     /\ res' = o.res
     /\ rateCacheSign' = o.cache
     /\ batchCounts' = o.counts
     /\ admittedSign' = IF o.admitted
                        THEN [admittedSign EXCEPT ![getIP(r)] = Remember(@, now)]
                        ELSE admittedSign
     /\ issued' = IF o.step \in {"count", "token"} /\ b # ""
                  THEN [issued EXCEPT ![b] = (IF wasLive THEN @ ELSE 0)
                                              + (IF o.res.token THEN 1 ELSE 0)]
                  ELSE issued
     /\ UNCHANGED <<now, ticks, allowedOrigins, rateCacheEst, store, nextId,
                    admittedEst>>
     /\ UNCHANGED <<xvars, ovars>>

\* the response leaves; the next request can be taken
Reply ==
  /\ res.status # 0
  /\ req' = NoReq
  /\ res' = Resp(0, "none")
  /\ UNCHANGED <<now, ticks, allowedOrigins, rateCacheEst, rateCacheSign,
                 batchCounts, store, nextId, admittedEst, admittedSign, issued>>
  /\ UNCHANGED <<xvars, ovars>>

(***************************************************************************)
(* Inputs                                                                  *)
(***************************************************************************)
Steps == {1, RATE_WINDOW_MS - 1, RATE_WINDOW_MS}
LongSteps == {RATE_WINDOW_MS, RATE_WINDOW_MS + 1}
XffHeaders == {<<>>, <<"ip2", "ip1">>}
Peers == {"ip1"}

RECURSIVE Urls(_, _)
Urls(k, valid) == IF k = 0 THEN <<>> ELSE <<valid>> \o Urls(k - 1, valid)

ZipFields == {AbsentField, NumberField, Str(0, 4), Str(0, 5), Str(6, 5), Str(0, 11)}
DescriptionFields == {AbsentField, Str(0, 2), Str(1, 3), Str(0, 5000), Str(0, 5001)}
UrlFields == {AbsentField, Arr(<<>>), Arr(<<TRUE, FALSE>>),
              Arr(Urls(MAX_FILES, TRUE)), Arr(Urls(MAX_FILES + 1, TRUE))}

GoodBody == Body("object", Str(0, 5), Str(0, 3), Arr(<<TRUE>>))

\* a well-formed body with one field replaced, bodies with nothing right,
\* and bodies that are not a JSON object
EstimateBodies ==
  {Body("malformed", AbsentField, AbsentField, AbsentField),
   Body("empty", AbsentField, AbsentField, AbsentField),
   Body("array", AbsentField, AbsentField, AbsentField),
   Body("object", NumberField, Str(0, 5001), Arr(Urls(MAX_FILES + 1, FALSE))),
   GoodBody}
  \cup {[GoodBody EXCEPT !.zip = z] : z \in ZipFields}
  \cup {[GoodBody EXCEPT !.description = d] : d \in DescriptionFields}
  \cup {[GoodBody EXCEPT !.image_urls = u] : u \in UrlFields}

ModelTexts ==
  { <<>>,
    <<"\n", "$", "x">>,
    <<"$", "\n", BT, "json", "{", "\"a\"", ":", "1", "}", BT>>,
    <<"outside", " ", "\n", "x">>,
    <<"outside", "\n", "{", "\"serviceable\"", ":", "true", ",", "}">> }

GoodEnv == [threw |-> FALSE,
            text |-> <<"$", "\n", BT, "json", "{", "\"a\"", ":", "1", "}", BT>>,
            putFails |-> FALSE]

Envs ==
  {[threw |-> TRUE, text |-> <<>>, putFails |-> FALSE]}
  \cup {[threw |-> FALSE, text |-> t, putFails |-> f] : t \in ModelTexts, f \in BOOLEAN}

Meta(s, t, b) == [k |-> "meta", size |-> s, batchTotal |-> t, batchId |-> b]

Payloads ==
  {NoPayload, [NoPayload EXCEPT !.k = "garbage"], [NoPayload EXCEPT !.k = "null"]}
  \cup {Meta(s, t, b) :
          s \in {0, MAX_FILE_MB * MB, MAX_FILE_MB * MB + 1},
          t \in {MAX_TOTAL_MB * MB, MAX_TOTAL_MB * MB + 1},
          b \in BatchIds \cup {""}}

SignBody(kd, p) ==
  [kind |-> kd, zip |-> AbsentField, description |-> AbsentField,
   image_urls |-> AbsentField, payload |-> p]

SignBodies ==
  {SignBody(kd, NoPayload) : kd \in {"malformed", "empty", "other", "completed"}}
  \cup {SignBody("generate", p) : p \in Payloads}

Request(m, o, x, p, b) ==
  [h |-> "", method |-> m, origin |-> o, xff |-> x, remote |-> p, body |-> b]

\* what the widget posts from one address
Widget == Request("POST", "https://site", <<>>, "ip1", GoodBody)

\* every method, origin, address and body with one answer of the model and
\* the store, and every answer of the model and the store for one body
EstimateInputs ==
  {<<Request(m, o, x, p, b), GoodEnv>> :
     m \in {"OPTIONS", "GET"}, o \in Origins, x \in XffHeaders, p \in Peers,
     b \in {GoodBody}}
  \cup {<<Request("POST", o, x, p, b), GoodEnv>> :
     o \in Origins, x \in XffHeaders, p \in Peers, b \in EstimateBodies}
  \cup {<<Request("POST", o, x, p, GoodBody), e>> :
     o \in Origins, x \in XffHeaders, p \in Peers, e \in Envs}

SignRequests ==
  {Request(m, o, x, p, b) :
     m \in {"OPTIONS", "GET"}, o \in Origins, x \in XffHeaders, p \in Peers,
     b \in {SignBody("generate", NoPayload)}}
  \cup {Request("POST", o, x, p, b) :
     o \in Origins, x \in XffHeaders, p \in Peers, b \in SignBodies}

(***************************************************************************)
(* Specifications                                                          *)
(***************************************************************************)
\* the two endpoints under arbitrary requests, at one instant
Next ==
  \/ \E in \in EstimateInputs :
       nreq < MaxReqs /\ Estimate(in[1], in[2]) /\ nreq' = nreq + 1
  \/ \E r \in SignRequests : nreq < MaxReqs /\ Sign(r) /\ nreq' = nreq + 1
  \/ Reply /\ UNCHANGED nreq

Spec == Init /\ [][Next]_vars

\* well-formed requests of the widget over time: the rate limiter alone
\* decides; the widget keeps to the endpoint it posted to first
InitLocked == Init /\ allowedOrigins = {"https://site"}

RateRequests == {Widget}

RateSignRequests == {[Widget EXCEPT !.body = SignBody("generate", NoPayload)]}

NextRate ==
  \/ \E d \in Steps : Tick(d)
  \/ \E r \in RateRequests :
       rateCacheSign[getIP(r)] = <<>> /\ Estimate(r, GoodEnv) /\ UNCHANGED nreq
  \/ \E r \in RateSignRequests :
       rateCacheEst[getIP(r)] = <<>> /\ Sign(r) /\ UNCHANGED nreq
  \/ Reply /\ UNCHANGED nreq

SpecRate == InitLocked /\ [][NextRate]_vars

\* uploads of the widget over time: sign requests that carry batch metadata
BatchPayloads ==
  {Meta(0, MAX_TOTAL_MB * MB, "b1"),
   Meta(MAX_FILE_MB * MB, MAX_TOTAL_MB * MB, "b1"),
   Meta(MAX_FILE_MB * MB + 1, MAX_TOTAL_MB * MB, "b1"),
   Meta(MAX_FILE_MB * MB, MAX_TOTAL_MB * MB + 1, "b1"),
   Meta(MAX_FILE_MB * MB, MAX_TOTAL_MB * MB, "")}

BatchRequests ==
  {[Widget EXCEPT !.body = SignBody("generate", pl)] : pl \in BatchPayloads}

NextBatch ==
  \/ \E d \in LongSteps : Tick(d)
  \/ \E r \in BatchRequests : Sign(r) /\ UNCHANGED nreq
  \/ Reply /\ UNCHANGED nreq

SpecBatch == InitLocked /\ [][NextBatch]_vars

\* posts of the widget at one instant, and between them requests of other
\* methods from any origin, with and without a readable body
GateMethods == {"OPTIONS", "GET", "PUT"}

GateSignBody == SignBody("generate", Meta(0, MAX_TOTAL_MB * MB, "b1"))

GateProbes ==
  {Request(m, o, <<>>, "ip1", b) :
     m \in GateMethods, o \in Origins,
     b \in {GoodBody, Body("malformed", AbsentField, AbsentField, AbsentField)}}

GateSignProbes ==
  {Request(m, o, <<>>, "ip1", b) :
     m \in GateMethods, o \in Origins,
     b \in {GateSignBody, SignBody("malformed", NoPayload)}}

\* posts to the signing endpoint that are turned away, or pass without a
\* batch
GateSignPosts ==
  {[Widget EXCEPT !.body = GateSignBody, !.origin = o] : o \in {"", "https://evil"}}
  \cup {[Widget EXCEPT !.body = b] :
          b \in {SignBody("malformed", NoPayload),
                 SignBody("generate", Meta(MAX_FILE_MB * MB + 1, MAX_TOTAL_MB * MB, "b1")),
                 SignBody("generate", Meta(0, MAX_TOTAL_MB * MB + 1, "b1")),
                 SignBody("generate", Meta(0, MAX_TOTAL_MB * MB, "")),
                 SignBody("generate", Meta(0, 0, "")),
                 SignBody("generate", NoPayload),
                 SignBody("generate", [NoPayload EXCEPT !.k = "garbage"]),
                 SignBody("generate", [NoPayload EXCEPT !.k = "null"])}}

NextGate ==
  \/ Estimate(Widget, GoodEnv) /\ UNCHANGED nreq
  \/ Sign([Widget EXCEPT !.body = GateSignBody]) /\ UNCHANGED nreq
  \/ \E r \in GateSignPosts : Sign(r) /\ UNCHANGED nreq
  \/ \E r \in GateProbes : Estimate(r, GoodEnv) /\ UNCHANGED nreq
  \/ \E r \in GateSignProbes : Sign(r) /\ UNCHANGED nreq
  \/ Reply /\ UNCHANGED nreq

SpecGate == Init /\ [][NextGate]_vars

\* posts of the widget across the end of a month, answered by the model and
\* the store in every way, and between them requests that are turned away.
\* The service starts fresh, or after RATE_MAX - 1 posts of the client that
\* were admitted and refused for their bodies.
StoreEnvs ==
  {GoodEnv, [GoodEnv EXCEPT !.putFails = TRUE], [GoodEnv EXCEPT !.threw = TRUE]}

StoreRejects ==
  {[Widget EXCEPT !.method = "OPTIONS"], [Widget EXCEPT !.method = "GET"],
   [Widget EXCEPT !.origin = "https://evil"],
   [Widget EXCEPT !.body = Body("empty", AbsentField, AbsentField, AbsentField)]}

RECURSIVE Posted(_, _)
Posted(hist, k) == IF k = 0 THEN hist ELSE Posted(Remember(hist, 0), k - 1)

InitStore ==
  /\ now = 0
  /\ ticks = 0
  /\ nreq = 0
  /\ allowedOrigins = {"https://site"}
  /\ \E k \in {0, RATE_MAX - 1} :
       /\ rateCacheEst = [ip \in IPs |-> IF ip = getIP(Widget)
                                         THEN Posted(<<>>, k) ELSE <<>>]
       /\ admittedEst = rateCacheEst
  /\ rateCacheSign = [ip \in IPs |-> <<>>]
  /\ batchCounts = [b \in BatchIds |-> NoEntry]
  /\ store = {}
  /\ nextId = 1
  /\ admittedSign = [ip \in IPs |-> <<>>]
  /\ issued = [b \in BatchIds |-> 0]
  /\ req = NoReq
  /\ res = Resp(0, "none")
  /\ text = <<>>
  /\ nseg = 0
  /\ out = JNull
  /\ xpc = "build"
  /\ OtherIdle

NextStore ==
  \/ Tick(RATE_WINDOW_MS)
  \/ \E e \in StoreEnvs :
       nreq <= MaxReqs /\ Estimate(Widget, e) /\ nreq' = nreq + 1
  \/ \E r \in StoreRejects :
       nreq <= MaxReqs /\ Estimate(r, GoodEnv) /\ nreq' = nreq + 1
  \/ nreq <= MaxReqs /\ Sign([Widget EXCEPT !.body = GateSignBody])
       /\ nreq' = nreq + 1
  \/ Reply /\ UNCHANGED nreq

SpecStore == InitStore /\ [][NextStore]_vars

(***************************************************************************)
(* Texts given to the extractor are built from these pieces.               *)
(***************************************************************************)
ObjA1 == <<"{", "\"a\"", ":", "1", "}">>
Segments ==
  { <<"x">>, <<"\n">>, <<BT, "json">>, <<BT, "JSON">>, <<BT>>,
    ObjA1, <<"2">>, <<"{">>, <<"}">>, <<",">>,
    <<BT, "json", "x", BT>>,
    <<BT, "JSON", "\n">> \o ObjA1 \o <<"\n", BT>> }

AppendSegment(seg) ==
  /\ xpc = "build"
  /\ nseg < MaxSegs
  /\ text' = text \o seg
  /\ nseg' = nseg + 1
  /\ UNCHANGED <<out, xpc>>
  /\ UNCHANGED <<gvars, ovars>>

Extract ==
  /\ xpc = "build"
  /\ out' = extractJsonLoose(text)
  /\ xpc' = "done"
  /\ UNCHANGED <<text, nseg>>
  /\ UNCHANGED <<gvars, ovars>>

\* a whole text is given to the extractor
Load(t) ==
  /\ xpc = "build"
  /\ nseg = 0
  /\ text' = t
  /\ nseg' = 1
  /\ UNCHANGED <<out, xpc>>
  /\ UNCHANGED <<gvars, ovars>>

\* the extractor on every text of at most MaxSegs pieces
NextExtract ==
  \/ \E seg \in Segments : AppendSegment(seg)
  \/ Extract

InitExtract == Init /\ allowedOrigins = {}

SpecExtract == InitExtract /\ [][NextExtract]_vars

(***************************************************************************)
(* Texts around JSON written with and without trailing commas              *)
(***************************************************************************)
\* what stands before a closing bracket
Gaps == {<<>>, <<",">>, <<",", " ">>}

ArrayTexts ==
  {<<"[">> \o b \o g \o <<"]">> : b \in {<<>>, <<"1">>, <<"1", ",", "2">>}, g \in Gaps}

StringTexts ==
  {<<"\"a\"">>, <<Q, ",", "}", Q>>, <<Q, ESCBT, "json", "1", ESCBT, Q>>}

InnerObjectTexts == {<<"{", "\"a\"", ":", "2">> \o g \o <<"}">> : g \in Gaps}

ValueTexts ==
  {<<"1">>, <<"true">>} \cup ArrayTexts \cup StringTexts \cup InnerObjectTexts

ObjectTexts ==
  {<<"{", "\"a\"", ":">> \o v \o m \o g \o <<"}">> :
     v \in ValueTexts,
     m \in {<<>>} \cup {<<",", " ", "\"arr\"", ":">> \o w : w \in ValueTexts},
     g \in Gaps}

\* prose and fences around the JSON
Wraps ==
  {<< <<>>, <<>> >>,
   << <<"x", " ">>, <<" ", "x">> >>,
   << <<BT, "json", "\n">>, <<"\n", BT>> >>,
   << <<"x", "\n", BT, "JSON">>, <<BT, "\n", "x">> >>}

RepairTexts ==
  {w[1] \o c \o w[2] : w \in Wraps, c \in ObjectTexts \cup ValueTexts}

NextRepair ==
  \/ \E t \in RepairTexts : Load(t)
  \/ Extract

SpecRepair == InitExtract /\ [][NextRepair]_vars

(***************************************************************************)
(* The admin listing: blobs are stored, then an admin walks the pages,     *)
(* each request carrying the cursor the response before returned.          *)
(***************************************************************************)
MaxBlobs == 3
MaxPage == 2

Blob(d, z, a) == [key |-> 0, date |-> d, zip |-> z, at |-> a]

\* results of two days and two zip codes, and a blob whose path is not one
\* of a result
BlobKinds ==
  {Blob("d1", "z1", 1), Blob("d1", "z1", 2), Blob("d2", "z1", 1),
   Blob("d1", "z2", 2), Blob("null", "null", 1)}

Limits ==
  {Absent, <<"0">>, <<"-", "5">>, <<"1">>, <<"2">>, <<"2", "0", "1">>,
   <<"x">>, <<"2", "x">>}

ListQueries ==
  {<<Query("GET", TRUE, l, 0, d, z), FALSE>> :
     l \in Limits, d \in {"", "d1"}, z \in {"", "z1"}}
  \cup {<<Query("POST", TRUE, Absent, 0, "", ""), FALSE>>,
        <<Query("GET", FALSE, Absent, 0, "", ""), FALSE>>,
        <<Query("GET", TRUE, Absent, 0, "", ""), TRUE>>}

\* a result is stored under a path of its own
Upload(b) ==
  /\ lpc = "build"
  /\ Len(blobs) < MaxBlobs
  /\ blobs' = Append(blobs, [b EXCEPT !.key = Len(blobs) + 1])
  /\ UNCHANGED <<pageSize, lreq, lres, seen, lpc>>
  /\ UNCHANGED <<gvars, xvars, cvars, qvars>>

\* the first request of a walk, without a cursor
List(q, p, fails) ==
  /\ lpc = "build"
  /\ pageSize' = p
  /\ lreq' = q
  /\ lres' = handlerList(q, blobs, p, fails)
  /\ seen' = lres'.items
  /\ lpc' = "walk"
  /\ UNCHANGED blobs
  /\ UNCHANGED <<gvars, xvars, cvars, qvars>>

\* the next request of the walk, with the cursor returned last
More ==
  /\ lpc = "walk"
  /\ lres.status = 200
  /\ lres.next_cursor # 0
  /\ lreq' = [lreq EXCEPT !.cursor = lres.next_cursor]
  /\ lres' = handlerList(lreq', blobs, pageSize, FALSE)
  /\ seen' = seen \o lres'.items
  /\ UNCHANGED <<blobs, pageSize, lpc>>
  /\ UNCHANGED <<gvars, xvars, cvars, qvars>>

NextList ==
  \/ \E b \in BlobKinds : Upload(b)
  \/ \E in \in ListQueries : \E p \in 1..MaxPage : List(in[1], p, in[2])
  \/ More

SpecList == InitLocked /\ [][NextList]_vars

(***************************************************************************)
(* Sign requests of the widget handled at once.  A handler runs from one   *)
(* await to the next without interruption: from its start to await         *)
(* readJson (method, origin and rate checks), and from there through       *)
(* onBeforeGenerateToken, which holds no await, to the response.           *)
(***************************************************************************)
FlightRequest == [Widget EXCEPT !.body = GateSignBody]

\* rateCache.get(ip) at the time rateLimit runs
ReadQueued(s) == flight[s].queued
Read(s) == rateCacheSign[getIP(FlightRequest)]

\* the request reaches the server and takes the first free place; its
\* handler has not run yet
Accept(s) ==
  /\ flight[s].pc = "free"
  /\ \A k \in 1..(s - 1) : flight[k].pc # "free"
  /\ flight' = [flight EXCEPT ![s] = [FreeSlot EXCEPT !.pc = "queued",
                                        !.queued = rateCacheSign[getIP(FlightRequest)]]]
  /\ UNCHANGED <<gvars, xvars, lvars, qvars>>

\* the handler up to await readJson
Start(s) ==
  \E o \in {handlerSign(FlightRequest, allowedOrigins,
                        [rateCacheSign EXCEPT ![getIP(FlightRequest)] = Read(s)],
                        batchCounts, now)} :
    /\ flight[s].pc = "queued"
    /\ rateCacheSign' = [rateCacheSign EXCEPT ![getIP(FlightRequest)] =
                           o.cache[getIP(FlightRequest)]]
    /\ admittedSign' = IF o.admitted
                       THEN [admittedSign EXCEPT ![getIP(FlightRequest)] =
                               Remember(@, now)]
                       ELSE admittedSign
    /\ flight' = [flight EXCEPT ![s] =
                    IF o.admitted THEN [@ EXCEPT !.pc = "awaitBody"]
                    ELSE [@ EXCEPT !.pc = "done", !.status = o.res.status]]
    /\ UNCHANGED <<now, ticks, nreq, allowedOrigins, rateCacheEst, batchCounts,
                   store, nextId, admittedEst, issued, req, res>>
    /\ UNCHANGED <<xvars, lvars, qvars>>

\* the handler from the body read to the response; the rate check lies
\* behind it
Resume(s) ==
  \E o \in {handlerSign(FlightRequest, allowedOrigins,
                        [ip \in IPs |-> <<>>], batchCounts, now)} :
  LET b == o.batchId
      wasLive == BatchGet(batchCounts, b, now) > 0
  IN /\ flight[s].pc = "awaitBody"
     /\ batchCounts' = o.counts
     /\ issued' = IF o.step \in {"count", "token"} /\ b # ""
                  THEN [issued EXCEPT ![b] = (IF wasLive THEN @ ELSE 0)
                                              + (IF o.res.token THEN 1 ELSE 0)]
                  ELSE issued
     /\ flight' = [flight EXCEPT ![s] = [@ EXCEPT !.pc = "done",
                                          !.status = o.res.status,
                                          !.token = o.res.token]]
     /\ UNCHANGED <<now, ticks, nreq, allowedOrigins, rateCacheEst, rateCacheSign,
                    store, nextId, admittedEst, admittedSign, req, res>>
     /\ UNCHANGED <<xvars, lvars, qvars>>

\* the response has left
Finish(s) ==
  /\ flight[s].pc = "done"
  /\ flight' = [flight EXCEPT ![s] = FreeSlot]
  /\ UNCHANGED <<gvars, xvars, lvars, qvars>>

\* the requests come in one burst: no time passes between them
NextConc ==
  \E s \in 1..MaxFlights : Accept(s) \/ Start(s) \/ Resume(s) \/ Finish(s)

SpecConc == InitLocked /\ [][NextConc]_vars

(***************************************************************************)
(* Quote requests: each is answered from what the model reported.          *)
(***************************************************************************)
MaxItems == 2
MaxAmounts == 2

Categories == {"bike", "other"}
Quantities == {NaN, Number(0), Number(2)}
Yards == {-1, 0, 1, 7}
Amounts == {[d |-> d, c |-> c] : d \in {5, 40, 99, 149, 300}, c \in {0, 50}}

ItemLists ==
  UNION {[1..k -> [category : Categories, qty : Quantities]] : k \in 0..MaxItems}

AmountLists == UNION {[1..k -> Amounts] : k \in 0..MaxAmounts}

QuoteItems(q) ==
  /\ qres.status = 0
  /\ qreq' = q
  /\ qres' = handlerItems(q)
  /\ UNCHANGED <<gvars, xvars, lvars, cvars>>

QuoteLine(q) ==
  /\ qres.status = 0
  /\ qreq' = q
  /\ qres' = handlerLine(q)
  /\ UNCHANGED <<gvars, xvars, lvars, cvars>>

QuoteLineSorted(q) ==
  /\ qres.status = 0
  /\ qreq' = q
  /\ qres' = handlerLineSorted(q)
  /\ UNCHANGED <<gvars, xvars, lvars, cvars>>

\* the response has left
QuoteReply ==
  /\ qres.status # 0
  /\ qreq' = NoQuote
  /\ qres' = QuoteResp(0, 0, 0)
  /\ UNCHANGED <<gvars, xvars, lvars, cvars>>

ItemRequests ==
  {QuoteReq("items", ok, its, y, st, carry, FALSE, <<>>) :
     ok \in BOOLEAN, its \in ItemLists, y \in Yards, st \in 0..1,
     carry \in BOOLEAN}

LineRequests ==
  {QuoteReq("line", ok, <<>>, 0, 0, FALSE, blank, ms) :
     ok \in BOOLEAN, blank \in BOOLEAN, ms \in AmountLists}

NextQuote ==
  \/ QuoteReply
  \/ \E q \in ItemRequests : QuoteItems(q)
  \/ \E q \in LineRequests : QuoteLine(q)
  \/ \E q \in LineRequests : QuoteLineSorted([q EXCEPT !.variant = "sorted"])

SpecQuote == InitLocked /\ [][NextQuote]_vars

(***************************************************************************)
(* Properties                                                              *)
(***************************************************************************)
\* a step in which a handler answers a request
Handled == res.status = 0 /\ res'.status # 0

\* the admitted instants of the client and endpoint of request r
AdmittedOf(r) ==
  IF r.h = "estimate" THEN admittedEst[getIP(r)] ELSE admittedSign[getIP(r)]

AdmittedAfter(r) ==
  IF r.h = "estimate" THEN admittedEst'[getIP(r)] ELSE admittedSign'[getIP(r)]

\* the last five admissions lie inside one window
Burst(h) == Len(h) >= RATE_MAX /\ h[Len(h)] - h[Len(h) - RATE_MAX + 1] < RATE_WINDOW_MS
BurstStart(h) == h[Len(h) - RATE_MAX + 1]

C2_BurstBound ==
  \A ip \in IPs :
    /\ Len(admittedEst[ip]) <= 2 * RATE_MAX
    /\ Len(admittedSign[ip]) <= 2 * RATE_MAX

C2_Witness ==
  LET h == admittedSign["ip1"]
  IN /\ Len(h) = 2 * RATE_MAX
     /\ h[Len(h)] - h[1] = RATE_WINDOW_MS
     /\ res.status = 200
     /\ req.h = "sign"

\* the stored state the claims speak of
Stored == <<rateCacheEst, rateCacheSign, batchCounts, store>>

\* the Origin header is absent or not in the configured allow-set
Unlisted(origin) == origin = "" \/ origin \notin allowedOrigins

\* C3 as claimed: a POST whose origin is absent or not in the allow-set is
\* answered 403 and leaves the rate caches, the batch counters and the store
\* as they were, on both endpoints.
C3_Original ==
  [][(Handled /\ req'.method = "POST" /\ Unlisted(req'.origin)) =>
       (res'.status = 403 /\ Stored' = Stored)]_vars

\* C3 amended: the same, except that on the upload-signing endpoint an empty
\* allow-set permits every origin.
C3_DisallowedOrigin ==
  [][(Handled /\ req'.method = "POST" /\ Unlisted(req'.origin)
        /\ (req'.h = "sign" => allowedOrigins # {})) =>
       (res'.status = 403 /\ Stored' = Stored)]_vars

\* a 403 for a client whose rate window already holds an instant
C3_Witness ==
  /\ res.status = 403
  /\ req.method = "POST"
  /\ req.h = "estimate"
  /\ Unlisted(req.origin)
  /\ rateCacheEst[getIP(req)] # <<>>

\* the origin and rate checks of the estimate endpoint let request r pass
PassesGate(r) ==
  /\ r.h = "estimate"
  /\ r.method = "POST"
  /\ ~Unlisted(r.origin)
  /\ Cardinality({i \in DOMAIN rateCacheEst[getIP(r)] :
                    now - rateCacheEst[getIP(r)][i] < RATE_WINDOW_MS}) < RATE_MAX

NoDescription(b) == b.kind \in {"object", "empty"} /\ b.description.k = "absent"

\* C4: a POST to the estimate endpoint that passes the origin and rate checks
\* and whose body is a JSON object without description is answered 400 with
\* an issue on the description field, calls neither the model nor the store,
\* and the rate window of its client gains the instant of the request.
C4_MissingDescription ==
  [][(Handled /\ PassesGate(req') /\ NoDescription(req'.body)) =>
       /\ res'.status = 400
       /\ \E i \in DOMAIN res'.issues : res'.issues[i].field = "description"
       /\ ~res'.modelCalled /\ ~res'.putCalled
       /\ store' = store /\ nextId' = nextId
       /\ rateCacheEst'[getIP(req')] =
            Append(SelectSeq(rateCacheEst[getIP(req')],
                             LAMBDA t : now - t < RATE_WINDOW_MS), now)]_vars

C4_Witness ==
  /\ req.h = "estimate"
  /\ res.status = 400
  /\ req.body.kind = "object"
  /\ req.body.description.k = "absent"
  /\ req.body.zip.k = "string"
  /\ \E i \in DOMAIN res.issues : res.issues[i].field = "description"
  /\ Len(rateCacheEst[getIP(req)]) = 2

\* the QuoteRequest shape, lengths taken after trimming surrounding whitespace
WithinShape(b) ==
  /\ b.kind \in {"object", "empty"}
  /\ b.zip.k = "string" /\ b.zip.len >= 5 /\ b.zip.len <= 10
  /\ b.description.k = "string" /\ b.description.len >= 3
  /\ b.description.len <= 5000
  /\ b.image_urls.k = "array" /\ Len(b.image_urls.urls) <= MAX_FILES
  /\ \A i \in DOMAIN b.image_urls.urls : b.image_urls.urls[i]

\* C5: the estimate endpoint calls the model or the store only for a request
\* whose zip, description and image_urls are all present and within bounds; a
\* request outside the shape ends with no call made and nothing stored.
C5_ShapeBeforeCalls ==
  [][Handled =>
       /\ (res'.modelCalled \/ res'.putCalled \/ store' # store)
            => (req'.h = "estimate" /\ WithinShape(req'.body))
       /\ (req'.h = "estimate" /\ PassesGate(req') /\ req'.body.kind # "malformed"
             /\ ~WithinShape(req'.body))
            => (res'.status = 400 /\ store' = store)]_vars

\* a call made for a body at the bounds: padded zip or the most image URLs
C5_Witness ==
  /\ req.h = "estimate"
  /\ res.modelCalled /\ res.putCalled
  /\ (req.body.zip.pad > 0 \/ Len(req.body.image_urls.urls) = MAX_FILES)

\* what failed after admission
ExtractionFailed(rs) ==
  rs.modelCalled /\ ~rs.modelThrew /\ extractJsonLoose(rs.modelText) = JNull

IsFallback(rs) ==
  /\ rs.status = 200
  /\ rs.kind = "quote"
  /\ rs.customer_line = FALLBACK_LINE
  /\ rs.data = EmptyObj

\* C6 as claimed: an admitted POST to the estimate endpoint whose model call
\* throws, whose extraction fails or whose storage write fails is answered
\* 200 with the uniform fallback body, and no answer is a 5xx.
C6_Original ==
  (req.h = "estimate" /\ res.status # 0) =>
    /\ res.status < 500
    /\ (res.modelThrew \/ res.putFailed \/ ExtractionFailed(res)) => IsFallback(res)

\* C6 amended: no answer is a 5xx; a body that is not JSON, a model call that
\* throws and a storage write that fails are answered 200 with the uniform
\* fallback body; an extraction failure with the write succeeding is answered
\* 200 with data the empty object and the first line of the model text,
\* trimmed (the fallback line when the text is empty).
C6_FallbackOnFailure ==
  (req.h = "estimate" /\ res.status # 0) =>
    /\ res.status < 500
    /\ (res.modelThrew \/ res.putFailed) => IsFallback(res)
    /\ (res.status \notin {204, 405, 403, 429} /\ req.body.kind = "malformed")
         => IsFallback(res)
    /\ (ExtractionFailed(res) /\ ~res.putFailed) =>
         /\ res.status = 200
         /\ res.kind = "quote"
         /\ res.data = EmptyObj
         /\ res.customer_line =
              (IF res.modelText = <<>> THEN FALLBACK_LINE
               ELSE TrimText(FirstLine(res.modelText)))

\* nothing extracted from a text that is not empty
C6_Witness ==
  /\ req.h = "estimate"
  /\ ExtractionFailed(res)
  /\ ~res.putFailed
  /\ res.modelText # <<>>
  /\ res.status = 200
  /\ res.customer_line # FALLBACK_LINE

\* C7 as claimed: when the storage write fails after the model answered, the
\* response still carries the quote: the first line of the model text and
\* the extracted data.
C7_StorageFailureSwallowed ==
  (req.h = "estimate" /\ res.putFailed) =>
    /\ res.status = 200
    /\ res.customer_line = CustomerLine(res.modelText)
    /\ res.data = OrEmpty(extractJsonLoose(res.modelText))

\* C8 as claimed: no stored batch count exceeds MAX_FILES.
C8_BatchCountBounded ==
  \A b \in BatchIds : batchCounts[b].count <= MAX_FILES

\* the entry of batch b is live
Live(b) ==
  batchCounts[b].count > 0 /\ now - batchCounts[b].start <= RATE_WINDOW_MS

\* C9: a sign request that the rate limiter admits is answered 400 with an
\* error and a message, and gets no token, when its declared size exceeds
\* MAX_FILE_MB, its declared batch total exceeds MAX_TOTAL_MB, or MAX_FILES
\* tokens were already issued for its live batch; otherwise it gets a token.
\* No live batch gets more than MAX_FILES tokens.
C9_BatchAdmission ==
  [][(Handled /\ req'.h = "sign" /\ admittedSign' # admittedSign) =>
       LET p == req'.body.payload
           full == p.batchId # "" /\ Live(p.batchId) /\ issued[p.batchId] >= MAX_FILES
           over == \/ p.size > MAX_FILE_MB * MB
                   \/ p.batchTotal > MAX_TOTAL_MB * MB
                   \/ full
       IN /\ over => (res'.status = 400 /\ res'.kind = "signerr"
                        /\ res'.message # "" /\ ~res'.token)
          /\ ~over => (res'.status = 200 /\ res'.token)
          /\ \A b \in BatchIds : issued'[b] <= MAX_FILES]_vars

\* the request after MAX_FILES tokens of one live batch
C9_Witness ==
  /\ req.h = "sign"
  /\ res.status = 400
  /\ res.message = "Batch exceeds MAX_FILES files"
  /\ issued[req.body.payload.batchId] = MAX_FILES

\* a fenced block labeled json: opening marker at i, closing marker at j, no
\* marker in between
Block(t, i, j) ==
  /\ i >= 1 /\ j <= Len(t) /\ j >= i + 2
  /\ t[i] = BT /\ t[i + 1] \in Labels /\ t[j] = BT
  /\ \A k \in (i + 2)..(j - 1) : t[k] # BT

Interior(t, i, j) == SubSeq(t, i + 2, j - 1)

Opens(t, k) == k + 1 <= Len(t) /\ t[k] = BT /\ t[k + 1] \in Labels

\* C10 as claimed: whenever the text holds a fenced block labeled json with
\* valid JSON inside, the result is the value decoded from that interior.
C10_Original ==
  xpc = "done" =>
    \A i, j \in 1..Len(text) :
      (Block(text, i, j) /\ JSONparse(Interior(text, i, j)).ok)
        => out = JSONparse(Interior(text, i, j)).v

\* C10 amended: whenever the first fenced block labeled json of the text has
\* valid JSON inside, the result is the value decoded from that interior,
\* whatever precedes or follows the block.
C10_FirstFence ==
  xpc = "done" =>
    \A i, j \in 1..Len(text) :
      (/\ Block(text, i, j)
       /\ \A k \in 1..(i - 1) : ~Opens(text, k)
       /\ JSONparse(Interior(text, i, j)).ok)
        => out = JSONparse(Interior(text, i, j)).v

\* prose, a fenced object, prose
C10_Witness ==
  /\ xpc = "done"
  /\ \E i, j \in 2..(Len(text) - 1) :
       /\ Block(text, i, j)
       /\ text[1] = "x" /\ text[Len(text)] = "x"
       /\ JSONparse(Interior(text, i, j)).ok
       /\ out = JSONparse(Interior(text, i, j)).v
  /\ out.t = "obj"

\* the positions a textual removal of "comma, whitespace, X" deletes: the
\* comma and the whitespace up to X
Removed(s, X) ==
  {p \in 1..Len(s) :
     \E i \in 1..p, k \in (p + 1)..Len(s) :
       /\ s[i] = ","
       /\ s[k] = X
       /\ \A m \in (i + 1)..(k - 1) : IsWs(s[m])}

\* s without the positions in D
Without(s, D) ==
  LET keep == (1..Len(s)) \ D
  IN [n \in 1..Cardinality(keep) |->
        s[CHOOSE p \in keep : Cardinality({q \in keep : q <= p}) = n]]

\* commas before a closing brace removed, then commas before a closing bracket
Uncomma(s) ==
  LET braces == Without(s, Removed(s, "}"))
  IN Without(braces, Removed(braces, "]"))

Num(d) == Scalar("num", <<d>>)

\* the fenced text of the trailing-comma example and the value expected of it
CommaExample ==
  <<BT, "json", "\n", "{", "\"a\"", ":", "1", ",", " ", "\"arr\"", ":",
    "[", "1", ",", "2", ",", "]", ",", "}", "\n", BT>>
CommaExampleValue ==
  JObj(<< <<"\"a\"">>, <<"\"arr\"">> >>, <<Num("1"), JArr(<<Num("1"), Num("2")>>)>>)

\* C11: a candidate that parses strictly yields its value untouched; one that
\* does not is parsed once more with every comma before a closing brace, then
\* every comma before a closing bracket, removed (whitespace in between
\* included), and yields that value, or nothing when this fails too.  The
\* fenced text {"a":1, "arr":[1,2,],} yields {a: 1, arr: [1, 2]}.
C11_LenientRepair ==
  xpc = "done" =>
    /\ LET c == Candidate(text)
       IN (c.has /\ c.raw # <<>>) =>
            IF JSONparse(c.raw).ok
            THEN out = JSONparse(c.raw).v
            ELSE IF JSONparse(Uncomma(c.raw)).ok
            THEN out = JSONparse(Uncomma(c.raw)).v
            ELSE out = JNull
    /\ text = CommaExample => out = CommaExampleValue

\* the trailing-comma example has been extracted
C11_Witness ==
  /\ xpc = "done"
  /\ text = CommaExample
  /\ ~JSONparse(Candidate(text).raw).ok
  /\ out = CommaExampleValue

\* the extractor run on its own result, serialized
Again(v) == extractJsonLoose(JSONstringify(v))

\* C12 as claimed: whatever value other than nothing the extractor returns,
\* the extractor returns it again from its serialization.
C12_Original ==
  (xpc = "done" /\ out # JNull) => Again(out) = out

\* C12 amended: the same for a result that is an object whose serialization
\* holds no fenced block labeled json.
C12_Idempotent ==
  (xpc = "done" /\ out.t = "obj" /\ FenceStarts(JSONstringify(out)) = {})
    => Again(out) = out

\* an object recovered by the repair, with an object and an array inside,
\* comes back from its serialization
C12_Witness ==
  /\ xpc = "done"
  /\ out.t = "obj"
  /\ Len(out.kids) = 2
  /\ out.kids[1].t = "obj"
  /\ out.kids[2].t = "arr"
  /\ ~JSONparse(Candidate(text).raw).ok
  /\ FenceStarts(JSONstringify(out)) = {}
  /\ Again(out) = out

\* the block at i..j is the first fenced block labeled json of t
FirstBlock(t, i, j) == Block(t, i, j) /\ \A k \in 1..(i - 1) : ~Opens(t, k)

\* what the two parses make of a candidate
Parsed(c) ==
  IF JSONparse(c).ok THEN JSONparse(c).v
  ELSE IF JSONparse(Uncomma(c)).ok THEN JSONparse(Uncomma(c)).v
  ELSE JNull

\* a JSON object stands in t outside the positions i..j
ObjectElsewhere(t, i, j) ==
  \E a, b \in 1..Len(t) :
    /\ (b < i \/ a > j)
    /\ a < b
    /\ JSONparse(SubSeq(t, a, b)).ok
    /\ JSONparse(SubSeq(t, a, b)).v.t = "obj"

\* C13: when the text has a fenced block labeled json, the result is what the
\* strict parse, else the repaired parse, makes of the interior of the first
\* such block, and nothing when both fail, whatever else the text holds.
C13_FirstFenceOnly ==
  xpc = "done" =>
    \A i, j \in 1..Len(text) :
      FirstBlock(text, i, j) => out = Parsed(Interior(text, i, j))

\* nothing extracted although a JSON object follows the first block
C13_Witness ==
  /\ xpc = "done"
  /\ out = JNull
  /\ \E i, j \in 1..Len(text) :
       /\ FirstBlock(text, i, j)
       /\ Interior(text, i, j) # <<>>
       /\ ObjectElsewhere(text, i, j)

\* the kinds of a decoded JSON value
ValueKinds == {"obj", "arr", "str", "num", "lit"}

\* C14: the answer of the extractor to a text is a JSON value or nothing,
\* never an exception; it is nothing when there is no candidate and when
\* both the strict and the repaired parse of the candidate fail.
C14_Total ==
  xpc = "done" =>
    /\ out.t \in ValueKinds
    /\ LET c == Candidate(text)
       IN (~c.has \/ (~JSONparse(c.raw).ok /\ ~JSONparse(Uncomma(c.raw)).ok))
            => out = JNull

\* a candidate that neither parse accepts
C14_Witness ==
  /\ xpc = "done"
  /\ Candidate(text).has
  /\ Candidate(text).raw # <<>>
  /\ ~JSONparse(Candidate(text).raw).ok
  /\ Uncomma(Candidate(text).raw) # Candidate(text).raw
  /\ ~JSONparse(Uncomma(Candidate(text).raw)).ok
  /\ out = JNull

\* positions of a character in the text
At(t, c) == {p \in 1..Len(t) : t[p] = c}

\* no fenced block labeled json in t: no labeled opening marker that a later
\* marker closes
Unfenced(t) == \A i, j \in 1..Len(t) : ~Block(t, i, j)

\* C15: for a text without a fenced block labeled json, when a closing brace
\* follows the first opening brace and the text from the first opening to the
\* last closing brace is a JSON text, the result is its value; when there is
\* no opening brace, no closing brace, or the last closing one precedes the
\* first opening one, the result is nothing.
C15_BraceSpan ==
  (xpc = "done" /\ Unfenced(text)) =>
    LET opens == At(text, "{")
        closes == At(text, "}")
    IN IF opens # {} /\ closes # {} /\ Max(closes) > Min(opens)
       THEN LET span == SubSeq(text, Min(opens), Max(closes))
            IN JSONparse(span).ok => out = JSONparse(span).v
       ELSE out = JNull

\* prose, an object, prose
C15_Witness ==
  /\ xpc = "done"
  /\ Unfenced(text)
  /\ Len(text) >= 3
  /\ text[1] = "x" /\ text[Len(text)] = "x"
  /\ out.t = "obj"
  /\ out.keys # <<>>
  /\ out = JSONparse(SubSeq(text, 2, Len(text) - 1)).v

\* the estimate endpoint admitted the request: origin and rate checks passed
AdmittedPost ==
  req.h = "estimate" /\ res.status \notin {0, 204, 405, 403, 429}

\* C16 as claimed: an admitted POST whose body is not JSON fails with the
\* generic could-not-process message, without issues and without a model or
\* storage call; an empty body is validated as the empty object.
C16_MalformedBody ==
  AdmittedPost =>
    /\ req.body.kind = "malformed" =>
         /\ res.status >= 400
         /\ res.customer_line = RATE_LINE
         /\ res.issues = <<>>
         /\ ~res.modelCalled /\ ~res.putCalled
    /\ req.body.kind = "empty" =>
         /\ res.status = 400
         /\ \A f \in {"zip", "description", "image_urls"} :
              \E i \in DOMAIN res.issues : res.issues[i].field = f

\* the handling of a request left every store of the two handlers as it was
Untouched ==
  /\ Stored' = Stored
  /\ nextId' = nextId
  /\ admittedEst' = admittedEst /\ admittedSign' = admittedSign
  /\ issued' = issued

\* the client of the request would be refused by the rate limiter of the
\* endpoint it addresses
RateLimited(r) ==
  IF r.h = "estimate" THEN ~rateLimit(rateCacheEst, getIP(r), now).ok
  ELSE ~rateLimit(rateCacheSign, getIP(r), now).ok

\* C17: every OPTIONS request, to either endpoint, from any origin, at any
\* rate state and with any body, is answered 204 with an empty body, and
\* the rate windows, the batch counters and the blob store stay as they were.
C17_Preflight ==
  [][(Handled /\ req'.method = "OPTIONS") =>
       (res' = Resp(204, "none") /\ Untouched)]_vars

\* an OPTIONS request from an unlisted origin, with an unreadable body, of a
\* client whose rate window is full, has been answered 204
C17_Witness ==
  /\ req.method = "OPTIONS" /\ res.status = 204
  /\ req.h = "estimate"
  /\ allowedOrigins # {} /\ req.origin \notin allowedOrigins
  /\ req.body.kind = "malformed"
  /\ RateLimited(req)
  /\ batchCounts["b1"].count > 0

\* C18: every request whose method is neither POST nor OPTIONS is answered
\* 405 whatever its body, and the rate windows, the batch counters and the
\* blob store stay as they were.
C18_MethodCheck ==
  [][(Handled /\ req'.method \notin {"POST", "OPTIONS"}) =>
       (res' = Resp(405, "text") /\ Untouched)]_vars

\* a GET with an unreadable body has been answered 405 while the client's
\* window had room, the store held a record and a batch was counted
C18_Witness ==
  /\ req.method = "GET" /\ res.status = 405
  /\ req.h = "sign"
  /\ req.body.kind = "malformed"
  /\ ~RateLimited(req)
  /\ store # {}
  /\ batchCounts["b1"].count > 0

\* the record the handling of the request added to the store
Written == store' \ store

\* C19: when the model's text, trimmed, is not empty and the extractor
\* recovers nothing from it, and the store accepts the write, the answer is
\* 200 with data the empty object and customer_line the first line of the
\* text, trimmed, which is not the fallback message; one record is written
\* that holds the text, that line and the empty object.
C19_SoftExtraction ==
  [][(Handled /\ req'.h = "estimate" /\ ExtractionFailed(res')
        /\ res'.modelText # <<>> /\ ~res'.putFailed) =>
       /\ res'.status = 200
       /\ res'.kind = "quote"
       /\ res'.data = EmptyObj
       /\ res'.customer_line = TrimText(FirstLine(res'.modelText))
       /\ res'.customer_line # FALLBACK_LINE
       /\ \E rec \in Written :
            /\ Written = {rec}
            /\ rec.model_text = res'.modelText
            /\ rec.customer_line = res'.customer_line
            /\ rec.data = EmptyObj]_vars

\* a text of two lines without an object, its first line ending in a blank,
\* has been answered with the first line and stored
C19_Witness ==
  /\ req.h = "estimate"
  /\ ExtractionFailed(res)
  /\ ~res.putFailed
  /\ Contains(res.modelText, "\n")
  /\ res.customer_line # FirstLine(res.modelText)
  /\ res.customer_line = TrimText(FirstLine(res.modelText))
  /\ \E rec \in store : rec.model_text = res.modelText /\ rec.data = EmptyObj

\* C20: the store only grows, by at most one record a step, and never under
\* a path it already holds; a request whose model call answered causes one
\* write, which, when the store accepts it, adds one record under
\* estimates/<month of the clock>/<an id no stored record has>; a request
\* answered 204, 405, 403, 429 or 400 causes no write.
C20_RecordLifecycle ==
  [][/\ store \subseteq store'
     /\ Cardinality(Written) <= 1
     /\ \A rec \in Written : \A x \in store : x.path # rec.path
     /\ (Handled /\ req'.h = "estimate" /\ res'.modelCalled /\ ~res'.modelThrew) =>
          /\ res'.putCalled
          /\ ~res'.putFailed =>
               \E rec \in Written :
                 /\ rec.path.prefix = "estimates"
                 /\ rec.path.ym = YearMonth(now)
                 /\ \A x \in store : x.path.id # rec.path.id
     /\ (Handled /\ res'.status \in {204, 405, 403, 429, 400}) =>
          (store' = store /\ ~res'.putCalled)]_vars

\* a record has been written in the month after the one of an earlier record
C20_Witness ==
  /\ req.h = "estimate" /\ res.status = 200
  /\ res.putCalled /\ ~res.putFailed
  /\ \E x, y \in store :
       /\ x.path.ym < y.path.ym
       /\ x.path.id < y.path.id
       /\ y.ts = now

\* the blobs among the first e of the listing, after the first c, that pass
\* the filters of the request
MatchesIn(c, e) ==
  {k \in (c + 1)..e : Matches(blobs[k], lreq.date, lreq.zip)}

\* where the pages end that a listing from cursor c returns
PageEnds(c) ==
  {Min({Len(blobs), c + k * pageSize}) : k \in 1..(Len(blobs) + 1)}

\* the listing has no page after those a request for lim items reads: no
\* page ending before the last blob completes lim items
NoFurtherPage(c, lim) ==
  \A e \in PageEnds(c) : e < Len(blobs) => Cardinality(MatchesIn(c, e)) < lim

\* the limit as claimed: 50 when the parameter is absent or not a number,
\* else the number brought into 1..200
ClaimedLimit(limit) == Max({1, Min({200, OrFiftyNaNOnly(limit)})})

\* C21 as claimed: a 200 response of the listing holds at most as many items
\* as the limit parameter brought into 1..200 (50 when absent or not a
\* number), and next_cursor is null exactly when the listing has no further
\* page.
C21_PageSize ==
  lres.status = 200 =>
    /\ Len(lres.items) <= ClaimedLimit(lreq.limit)
    /\ lres.next_cursor = 0 <=> NoFurtherPage(lreq.cursor, ClaimedLimit(lreq.limit))

\* the admitted instants of history h that lie in the window ending at the
\* i-th of them
InWindowOf(h, i) == {j \in 1..i : h[i] - h[j] < RATE_WINDOW_MS}

WindowOk(arr) ==
  /\ Len(arr) <= RATE_MAX
  /\ \A i, j \in DOMAIN arr : i < j => arr[i] <= arr[j]

ReachesCount(r, status) ==
  /\ r.method = "POST"
  /\ status \notin {403, 429}
  /\ r.body.kind = "generate"
  /\ r.body.payload.k = "meta"
  /\ ~FileTooBig(r.body.payload.size)
  /\ ~BatchTooBig(r.body.payload.batchTotal)
  /\ r.body.payload.batchId # ""

\* C24: in the signing handler a batch counter changes only when the request
\* reaches the file-count step, and a request answered 204, 405 or 403
\* leaves every rate window as it was.
C24_SideEffectOrder ==
  [][(Handled /\ req'.h = "sign") =>
       /\ batchCounts' # batchCounts => ReachesCount(req', res'.status)
       /\ res'.status \in {204, 405, 403} =>
            (rateCacheSign' = rateCacheSign /\ rateCacheEst' = rateCacheEst)]_vars

\* a file too large for a counted batch has been refused
C24_Witness ==
  /\ req.h = "sign" /\ req.method = "POST"
  /\ res.status = 400
  /\ FileTooBig(req.body.payload.size)
  /\ req.body.payload.batchId = "b1"
  /\ batchCounts["b1"].count > 0
  /\ batchCounts["b1"].count = issued["b1"]
  /\ Len(rateCacheSign[getIP(req)]) = batchCounts["b1"].count + 1

\* the stored timestamp sequence of the client and endpoint of request r
WindowOf(r) ==
  IF r.h = "estimate" THEN rateCacheEst[getIP(r)] ELSE rateCacheSign[getIP(r)]

WindowAfter(r) ==
  IF r.h = "estimate" THEN rateCacheEst'[getIP(r)] ELSE rateCacheSign'[getIP(r)]

\* C25: a request answered 429 leaves the stored sequence of its client as
\* it was; a client with a full sequence is refused while the oldest stored
\* instant is less than RATE_WINDOW_MS old and admitted by the first request
\* made when it is at least that old.
C25_NoLockoutExtension ==
  [][Handled =>
       LET arr == WindowOf(req')
       IN /\ res'.status = 429 => WindowAfter(req') = arr
          /\ Len(arr) = RATE_MAX =>
               IF now - arr[1] < RATE_WINDOW_MS
               THEN res'.status = 429
               ELSE res'.status = 200 /\ WindowAfter(req') # arr]_vars

\* a retry one millisecond before the oldest instant expires has been refused
C25_Witness ==
  LET arr == rateCacheSign["ip1"]
  IN /\ req.h = "sign"
     /\ res.status = 429
     /\ Len(arr) = RATE_MAX
     /\ now - arr[1] = RATE_WINDOW_MS - 1
     /\ arr[RATE_MAX] > arr[1]

\* the instants of the client of r that the signing handler still counts
SignWindow(r) ==
  SelectSeq(rateCacheSign[getIP(r)], LAMBDA t : InWindow(t, now))

\* C26 as claimed: the k-th sign request of a batch, k <= MAX_FILES, with
\* sizes within the limits, from a client whose window holds nothing but the
\* k - 1 earlier requests of that batch, is issued an upload token.
C26_BatchUploadable ==
  [][(/\ Handled /\ req'.h = "sign"
      /\ req'.method = "POST" /\ OriginOkSign(req'.origin, allowedOrigins)
      /\ ReachesCount(req', 0)
      /\ BatchGet(batchCounts, req'.body.payload.batchId, now) + 1 <= MAX_FILES
      /\ Len(SignWindow(req')) = BatchGet(batchCounts, req'.body.payload.batchId, now))
       => res'.token]_vars

\* the walk over the listing has ended: the last response carries no cursor
WalkDone == lpc = "walk" /\ lres.status = 200 /\ lres.next_cursor = 0

\* C27 as claimed: with a limit in 1..200, the responses of a walk that has
\* ended hold every stored result that matches the filters, each exactly
\* once.
C27_CompleteWalk ==
  (WalkDone /\ ~parseInt(lreq.limit).nan /\ parseInt(lreq.limit).n \in 1..200)
    => /\ \A k \in 1..Len(blobs) :
            Matches(blobs[k], lreq.date, lreq.zip)
              => Cardinality({i \in 1..Len(seen) : seen[i].key = k}) = 1
       /\ \A i \in 1..Len(seen) :
            /\ seen[i].key \in 1..Len(blobs)
            /\ Matches(blobs[seen[i].key], lreq.date, lreq.zip)
            /\ \A j \in 1..Len(seen) : seen[j].key = seen[i].key => j = i

\* the origin check of the handler that request r is NOT addressed to
OtherOriginOk(r) ==
  IF r.h = "estimate" THEN OriginOkSign(r.origin, allowedOrigins)
  ELSE OriginOkEstimate(r.origin, allowedOrigins)

\* C28 as claimed: for every allow-list and every Origin header, a POST is
\* turned away with 403 by one handler exactly when the origin check of the
\* other handler turns the same origin away.
C28_OriginsAgree ==
  [][(Handled /\ req'.method = "POST")
       => (res'.status = 403 <=> ~OtherOriginOk(req'))]_vars

\* C29 as claimed: a 200 quote response has lowTotal <= highTotal.
C29_RangeOrdered == qres.status = 200 => qres.lowTotal <= qres.highTotal

\* the same for the handlers that read the amounts out of the model's line
LineRangeOrdered ==
  (qres.status = 200 /\ qreq.variant # "items") => qres.lowTotal <= qres.highTotal

\* the client payload states no size, no batch total and no batch: it is
\* absent, does not parse, or parses to a value without the three
Unstated(p) ==
  \/ p.k \in {"absent", "garbage", "null"}
  \/ p.k = "meta" /\ p.size = 0 /\ p.batchTotal = 0 /\ p.batchId = ""

\* a token request with such a payload that the rate limiter has let in
UnstatedAdmitted ==
  /\ Handled /\ req'.h = "sign"
  /\ req'.method = "POST" /\ OriginOkSign(req'.origin, allowedOrigins)
  /\ req'.body.kind = "generate"
  /\ Unstated(req'.body.payload)
  /\ res'.status # 429

\* C30 as claimed: a sign request whose payload is absent, unparsable or
\* without size, batchTotal and batchId is issued a token once the rate
\* limiter lets it in, and batchCounts stays as it was.
C30_UnstatedPayload ==
  [][UnstatedAdmitted => (res'.token /\ batchCounts' = batchCounts)]_vars

\* the same, the payload that parses to null left aside
UnstatedButNull ==
  [][(UnstatedAdmitted /\ req'.body.payload.k # "null")
       => (res'.token /\ batchCounts' = batchCounts)]_vars

====
